---- MODULE Spec2Model ----
(***************************************************************************)
(* The unified call facade createApiCall of the prompt playground, its     *)
(* four provider adapters (callOpenAI, callAnthropic, callGoogle,          *)
(* callOllama), the one-round tool loop they share and the tool executor.  *)
(* One behaviour is one call of createApiCall: the arguments and the       *)
(* credential store are fixed by Init, the network and the tool bodies     *)
(* answer nondeterministically.  An action is the code that runs between   *)
(* two awaits.  A second specification, CostSpec, calls calculateCost on   *)
(* its own.  HookSpec (HookLiveSpec with fairness) is the playground hook  *)
(* usePlaygroundState around a call, and ABSpec the A/B comparison with    *)
(* its two calls side by side.                                             *)
(***************************************************************************)
EXTENDS Integers, Sequences, FiniteSets, TLC

(***************************************************************************)
(* Optional values: undefined is the empty sequence, a present value v is  *)
(* <<v>>.  Truthy is JavaScript's truthiness of an optional string.        *)
(***************************************************************************)
Undefined == <<>>

Some(v) == <<v>>

Truthy(o) == o # Undefined /\ o[1] # ""

(***************************************************************************)
(* Bounds of the model.                                                    *)
(***************************************************************************)
MaxToolCalls == 2

MaxReads == 2

MaxTokenCount == 3

(***************************************************************************)
(* The model registry (types.ts).  A rate is held in thousandths of a       *)
(* dollar per million tokens (0.15 is 150), so that costs are integers.    *)
(***************************************************************************)
ProviderOrder == <<"openai", "anthropic", "google", "ollama">>

Providers == {ProviderOrder[i] : i \in 1..Len(ProviderOrder)}

CloudProviders == {"openai", "anthropic", "google"}

MODELS ==
  [openai |->
     << [id |-> "gpt-4o-mini", provider |-> "openai", supportsTools |-> TRUE,
         cost |-> [input |-> 150, output |-> 600]],
        [id |-> "gpt-4.1-mini", provider |-> "openai", supportsTools |-> TRUE,
         cost |-> [input |-> 400, output |-> 1600]],
        [id |-> "gpt-4.1-nano", provider |-> "openai", supportsTools |-> TRUE,
         cost |-> [input |-> 100, output |-> 25]],
        [id |-> "gpt-4.1", provider |-> "openai", supportsTools |-> TRUE,
         cost |-> [input |-> 2000, output |-> 500]] >>,
   anthropic |->
     << [id |-> "claude-sonnet-4-20250514", provider |-> "anthropic", supportsTools |-> TRUE,
         cost |-> [input |-> 3000, output |-> 15000]],
        [id |-> "claude-3-7-sonnet-20250219", provider |-> "anthropic", supportsTools |-> TRUE,
         cost |-> [input |-> 300, output |-> 15000]],
        [id |-> "claude-3-5-haiku-20241022", provider |-> "anthropic", supportsTools |-> TRUE,
         cost |-> [input |-> 80, output |-> 4000]] >>,
   google |->
     << [id |-> "gemini-2.0-flash", provider |-> "google", supportsTools |-> TRUE,
         cost |-> [input |-> 100, output |-> 400]],
        [id |-> "gemini-2.5-flash", provider |-> "google", supportsTools |-> TRUE,
         cost |-> [input |-> 150, output |-> 600]] >>,
   ollama |->
     << [id |-> "llama3.2", provider |-> "ollama", supportsTools |-> FALSE,
         cost |-> [input |-> 0, output |-> 0]],
        [id |-> "gemma3", provider |-> "ollama", supportsTools |-> TRUE,
         cost |-> [input |-> 0, output |-> 0]] >>]

HasModel(p, modelId) == \E k \in 1..Len(MODELS[p]) : MODELS[p][k].id = modelId

\* A lookup that falls back to the local provider for a model it does not know.
getProviderForModelDefault(modelId) ==
  LET hits == {i \in 1..Len(ProviderOrder) : HasModel(ProviderOrder[i], modelId)}
  IN  IF hits = {} THEN Some("ollama")
      ELSE Some(ProviderOrder[CHOOSE i \in hits : \A j \in hits : i <= j])

\* The first provider, in the registry's order, that lists the model; else null.
getProviderForModel(modelId) ==
  LET hits == {i \in 1..Len(ProviderOrder) : HasModel(ProviderOrder[i], modelId)}
  IN  IF hits = {} THEN Undefined
      ELSE Some(ProviderOrder[CHOOSE i \in hits : \A j \in hits : i <= j])

\* The registry entry of the model, searched provider by provider; else null.
getModelInfo(modelId) ==
  LET hits == {i \in 1..Len(ProviderOrder) : HasModel(ProviderOrder[i], modelId)}
  IN  IF hits = {} THEN Undefined
      ELSE LET ms == MODELS[ProviderOrder[CHOOSE i \in hits : \A j \in hits : i <= j]]
               ks == {k \in 1..Len(ms) : ms[k].id = modelId}
           IN  Some(ms[CHOOSE k \in ks : \A j \in ks : k <= j])

\* (tokens / 1000000) * rate for input plus the same for output, in
\* billionths of a dollar: exact where the code rounds to a double, which
\* keeps every order between two costs (rounding is monotonic).
RateCost(tokenUsage, rates) ==
  tokenUsage.inputTokens * rates.input + tokenUsage.outputTokens * rates.output

\* A cost that refunds the output tokens.
calculateCostRefund(tokenUsage, modelId) ==
  LET info == getModelInfo(modelId)
  IN  IF info = Undefined THEN 0
      ELSE tokenUsage.inputTokens * info[1].cost.input
           - tokenUsage.outputTokens * info[1].cost.output

calculateCost(tokenUsage, modelId) ==
  LET provider == getProviderForModel(modelId)
  IN  IF provider = Undefined THEN 0
      ELSE LET providerModels == MODELS[provider[1]]
               ks == {k \in 1..Len(providerModels) : providerModels[k].id = modelId}
           IN  IF ks = {}
               THEN IF Len(providerModels) = 0 THEN 0
                    ELSE RateCost(tokenUsage, providerModels[1].cost)
               ELSE RateCost(tokenUsage,
                             providerModels[CHOOSE k \in ks : \A j \in ks : k <= j].cost)

(***************************************************************************)
(* The arguments of the call and the credential store.                     *)
(***************************************************************************)
OllamaDefaultBaseUrl == "http://localhost:11434"

KeyOf(p) == "sk-" \o p

UrlOf(p) == "http://" \o p \o ".lan:11434"

InputModels ==
  {"gpt-4o-mini", "claude-sonnet-4-20250514", "gemini-2.0-flash",
   "llama3.2", "gemma3", "does-not-exist"}

\* What a caller's config carries besides the model: no credentials, or a
\* key typed for a provider (and then perhaps a base URL as well), with the
\* temperature in tenths and maxTokens.
InputSettings ==
  {[apiKey |-> Undefined, baseUrl |-> Undefined,
    temperature |-> 2, maxTokens |-> 100],
   [apiKey |-> Some(KeyOf("openai")), baseUrl |-> Undefined,
    temperature |-> 7, maxTokens |-> 5000],
   [apiKey |-> Some(KeyOf("anthropic")), baseUrl |-> Some(UrlOf("caller")),
    temperature |-> 2, maxTokens |-> 100]}

Configs ==
  {[model |-> m, apiKey |-> k.apiKey, baseUrl |-> k.baseUrl,
    temperature |-> k.temperature, maxTokens |-> k.maxTokens] :
     m \in InputModels, k \in InputSettings}

\* What the settings panel stores for a provider: its own key (its own URL
\* for Ollama), or fields left blank.
FilledEntry(p) ==
  Some([apiKey  |-> IF p \in CloudProviders THEN Some(KeyOf(p)) ELSE Undefined,
        baseUrl |-> IF p \in CloudProviders THEN Undefined ELSE Some(UrlOf(p))])

BlankEntry == Some([apiKey |-> Some(""), baseUrl |-> Some("")])

\* Nothing stored, every provider saved with blank fields, OpenAI alone
\* filled in, every provider filled in.
Stores ==
  {[p \in Providers |-> Undefined],
   [p \in Providers |-> BlankEntry],
   [p \in Providers |-> IF p = "openai" THEN FilledEntry(p) ELSE Undefined],
   [p \in Providers |-> FilledEntry(p)]}

Msg(id, role, content, toolCalls, toolCallId) ==
  [id |-> id, role |-> role, content |-> content,
   toolCalls |-> toolCalls, toolCallId |-> toolCallId]

Histories ==
  {<<Msg("m1", "user", "2+2?", Undefined, Undefined)>>,
   <<Msg("m1", "system", "Be brief", Undefined, Undefined),
     Msg("m2", "user", "Weather in Paris?", Undefined, Undefined)>>}

\* A tool is known to the adapters by tool.function.name.
ToolLists == {<<>>, <<[name |-> "lookup"]>>}

\* Which of onChunk, onToolCall, onToolResult the caller supplied.
CallbackChoices ==
  {[onChunk |-> FALSE, onToolCall |-> FALSE, onToolResult |-> FALSE],
   [onChunk |-> TRUE, onToolCall |-> FALSE, onToolResult |-> FALSE],
   [onChunk |-> TRUE, onToolCall |-> TRUE, onToolResult |-> TRUE]}

VARIABLES
  messages,      \* the caller's history
  config,        \* the caller's LLMConfig
  tools,         \* the caller's tools
  callbacks,     \* which callbacks the caller passed
  localStorage,  \* the per-provider credential store
  call           \* the locals of the call in flight and the record of what it
                 \* has done: requests sent, callbacks fired, tools run (executeLog,
                 \* toolEvents),
                 \* errors caught in the tool loop, what tool bodies threw and
                 \* what each makeApiCall returned
VARIABLE
  costCalls      \* the calls of calculateCost made on its own: arguments and result
VARIABLE
  hook           \* the state of usePlaygroundState and of its sendMessage in flight
VARIABLE
  ab             \* the two panes of the A/B comparison and their calls in flight

vars == <<messages, config, tools, callbacks, localStorage, call, costCalls, hook, ab>>

inputs == <<messages, config, tools, callbacks, localStorage>>

InitialCall ==
  [pc |-> "idle",
   provider |-> Undefined,
   mergedConfig |-> Undefined,
   storageReads |-> 0,
   dispatched |-> Undefined,
   fetchLog |-> <<>>,
   response |-> Undefined,
   streaming |-> FALSE,
   body |-> <<>>,
   received |-> <<>>,
   fullContent |-> "",
   streamUsage |-> Undefined,
   round |-> 0,
   initialResult |-> Undefined,
   messagesWithToolCalls |-> <<>>,
   toolIdx |-> 0,
   nextUuid |-> 1,
   chunkLog |-> <<>>,
   toolCallLog |-> <<>>,
   toolResultLog |-> <<>>,
   executeLog |-> <<>>,
   toolEvents |-> <<>>,
   caught |-> <<>>,
   thrown |-> <<>>,
   returned |-> <<>>,
   outcome |-> Undefined]

\* usePlaygroundState as first rendered: an empty conversation, no prompt
\* selected, not loading, no error, no sendMessage in flight.
InitialHook ==
  [conversation |-> [id |-> "uuid-0", messages |-> <<>>, promptId |-> Undefined],
   selectedPrompt |-> Undefined,
   isLoading |-> FALSE,
   error |-> Undefined,
   nextId |-> 1,
   inflight |-> Undefined,
   sends |-> 0,
   replacements |-> 0,
   settled |-> <<>>]

\* ABTestInterface as first rendered: two empty panes, nothing in flight.
InitialAB ==
  [left  |-> [messages |-> <<>>, isLoading |-> FALSE, error |-> Undefined],
   right |-> [messages |-> <<>>, isLoading |-> FALSE, error |-> Undefined],
   inflight |-> [left |-> Undefined, right |-> Undefined],
   nextId |-> 1,
   submits |-> 0,
   settled |-> <<>>]

Init ==
  /\ messages \in Histories
  /\ config \in Configs
  /\ tools \in ToolLists
  /\ callbacks \in CallbackChoices
  /\ localStorage \in Stores
  /\ call = InitialCall
  /\ costCalls = <<>>
  /\ hook = InitialHook
  /\ ab = InitialAB

(***************************************************************************)
(* JavaScript values that cross JSON.stringify / JSON.parse: an object is  *)
(* known by its canonical JSON text, a string by its characters.           *)
(***************************************************************************)
JsObject(text) == [type |-> "object", text |-> text]

JsString(chars) == [type |-> "string", text |-> chars]

JSONStringify(v) ==
  IF v.type = "string" THEN "\"" \o v.text \o "\"" ELSE v.text

JsValues ==
  {JsObject("{\"temp\":20}"), JsObject("{\"city\":\"Paris\"}"), JsObject("{}"),
   JsString("sunny")}

\* JSON.parse accepts exactly the texts JSON.stringify produces; anything
\* else (such as "Error: ...") is a SyntaxError.
JSONParses(text) == \E v \in JsValues : JSONStringify(v) = text

JSONParse(text) == CHOOSE v \in JsValues : JSONStringify(v) = text

Err(name, message) == [name |-> name, message |-> message]

SeqMap(F(_), s) == [i \in 1..Len(s) |-> F(s[i])]

NotSystem(msg) == msg.role # "system"

\* messages.find((msg) => msg.role === "system")?.content
SystemContent(msgs) ==
  LET idx == {i \in 1..Len(msgs) : msgs[i].role = "system"}
  IN  IF idx = {} THEN Undefined
      ELSE Some(msgs[CHOOSE i \in idx : \A j \in idx : i <= j].content)

(***************************************************************************)
(* Request bodies, one per adapter.                                        *)
(***************************************************************************)
FunctionTools(toolList) ==
  SeqMap(LAMBDA t : [type |-> "function", function |-> [name |-> t.name]], toolList)

OpenAIMessage(msg) ==
  [role |-> msg.role,
   content |-> msg.content,
   tool_calls |->
     IF msg.toolCalls # Undefined
     THEN Some(SeqMap(LAMBDA tc : [id |-> tc.id, type |-> "function",
                                   function |-> [name |-> tc.name,
                                                 arguments |-> JSONStringify(tc.arguments)]],
                      msg.toolCalls[1]))
     ELSE Undefined,
   tool_call_id |-> IF Truthy(msg.toolCallId) THEN msg.toolCallId ELSE Undefined]

OpenAIStream(cbs, toolList) == cbs.onChunk /\ Len(toolList) = 0

OpenAIRequest(cfg, cbs, toolList, messagesToSend) ==
  [provider |-> "openai",
   baseUrl |-> "https://api.openai.com",
   endpoint |-> "/v1/chat/completions",
   apiKey |-> cfg.apiKey,
   body |-> [model |-> cfg.model,
             messages |-> SeqMap(OpenAIMessage, messagesToSend),
             temperature |-> cfg.temperature,
             max_tokens |-> cfg.maxTokens,
             stream |-> OpenAIStream(cbs, toolList),
             tools |-> IF Len(toolList) > 0 THEN Some(FunctionTools(toolList))
                       ELSE Undefined,
             tool_choice |-> IF Len(toolList) > 0 THEN Some("auto") ELSE Undefined]]

AnthropicMessage(msg) ==
  IF msg.role = "tool"
  THEN [role |-> "user",
        content |-> <<[type |-> "tool_result", tool_use_id |-> msg.toolCallId,
                       content |-> msg.content]>>]
  ELSE IF msg.toolCalls # Undefined
  THEN [role |-> msg.role,
        content |->
          (IF msg.content # "" THEN <<[type |-> "text", text |-> msg.content]>> ELSE <<>>)
          \o SeqMap(LAMBDA tc : [type |-> "tool_use", id |-> tc.id, name |-> tc.name,
                                 input |-> tc.arguments],
                    msg.toolCalls[1])]
  ELSE [role |-> msg.role, content |-> msg.content]

AnthropicStream(cbs, toolList) == cbs.onChunk /\ Len(toolList) = 0

AnthropicRequest(cfg, cbs, toolList, messagesToSend) ==
  [provider |-> "anthropic",
   baseUrl |-> "https://api.anthropic.com",
   endpoint |-> "/v1/messages",
   apiKey |-> cfg.apiKey,
   body |-> [model |-> cfg.model,
             max_tokens |-> cfg.maxTokens,
             temperature |-> cfg.temperature,
             stream |-> AnthropicStream(cbs, toolList),
             messages |-> SeqMap(AnthropicMessage, SelectSeq(messagesToSend, NotSystem)),
             system |-> SystemContent(messages),
             tools |-> IF Len(toolList) > 0
                       THEN Some(SeqMap(LAMBDA t : [name |-> t.name], toolList))
                       ELSE Undefined]]

\* The name of the tool call a tool message answers, "unknown" when no
\* message of the history carries a call with that id.
GoogleToolName(msg, messagesToSend) ==
  LET hit(i) == /\ messagesToSend[i].toolCalls # Undefined
                /\ \E k \in 1..Len(messagesToSend[i].toolCalls[1]) :
                     messagesToSend[i].toolCalls[1][k].id = msg.toolCallId
      idx == {i \in 1..Len(messagesToSend) : hit(i)}
  IN  IF idx = {} THEN "unknown"
      ELSE LET tcs == messagesToSend[CHOOSE i \in idx : \A j \in idx : i <= j].toolCalls[1]
               ks  == {k \in 1..Len(tcs) : tcs[k].id = msg.toolCallId}
           IN  tcs[CHOOSE k \in ks : \A j \in ks : k <= j].name

\* A tool message is sent as a functionResponse whose response is
\* JSON.parse(msg.content): building the body throws when that is not JSON.
GoogleBodyThrows(messagesToSend) ==
  \E i \in 1..Len(messagesToSend) :
     messagesToSend[i].role = "tool" /\ ~JSONParses(messagesToSend[i].content)

GoogleContent(msg, messagesToSend) ==
  IF msg.role = "tool"
  THEN [role |-> "function",
        parts |-> <<[functionResponse |->
                       [name |-> GoogleToolName(msg, messagesToSend),
                        response |-> JSONParse(msg.content)]]>>]
  ELSE IF msg.toolCalls # Undefined
  THEN [role |-> IF msg.role = "assistant" THEN "model" ELSE "user",
        parts |->
          (IF msg.content # "" THEN <<[text |-> msg.content]>> ELSE <<>>)
          \o SeqMap(LAMBDA tc : [functionCall |-> [name |-> tc.name, args |-> tc.arguments]],
                    msg.toolCalls[1])]
  ELSE [role |-> IF msg.role = "assistant" THEN "model" ELSE "user",
        parts |-> <<[text |-> msg.content]>>]

GoogleUseStreaming(cbs, toolList) == cbs.onChunk /\ Len(toolList) = 0

GoogleRequest(cfg, cbs, toolList, messagesToSend) ==
  [provider |-> "google",
   baseUrl |-> "https://generativelanguage.googleapis.com",
   endpoint |-> "/v1beta/models/" \o cfg.model \o ":"
                \o (IF GoogleUseStreaming(cbs, toolList) THEN "streamGenerateContent"
                    ELSE "generateContent"),
   method |-> IF GoogleUseStreaming(cbs, toolList) THEN "streamGenerateContent"
              ELSE "generateContent",
   apiKey |-> cfg.apiKey,
   body |-> [contents |-> SeqMap(LAMBDA m : GoogleContent(m, messagesToSend),
                                 SelectSeq(messagesToSend, NotSystem)),
             generationConfig |-> [temperature |-> cfg.temperature,
                                   maxOutputTokens |-> cfg.maxTokens],
             systemInstruction |-> IF Truthy(SystemContent(messages))
                                   THEN SystemContent(messages) ELSE Undefined,
             tools |-> IF Len(toolList) > 0
                       THEN Some(SeqMap(LAMBDA t : [functionDeclarations |->
                                                      <<[name |-> t.name]>>], toolList))
                       ELSE Undefined]]

\* const supportsTools = modelInfo?.supportsTools && tools.length > 0
OllamaSupportsTools(cfg, toolList) ==
  /\ getModelInfo(cfg.model) # Undefined
  /\ getModelInfo(cfg.model)[1].supportsTools
  /\ Len(toolList) > 0

\* A base URL taken from the config alone, with no default.
OllamaBaseUrlNoDefault(cfg) ==
  IF cfg.baseUrl # Undefined THEN cfg.baseUrl[1] ELSE "undefined"

OllamaBaseUrl(cfg) ==
  IF Truthy(cfg.baseUrl) THEN cfg.baseUrl[1] ELSE OllamaDefaultBaseUrl

OllamaMessage(msg) ==
  IF msg.role = "tool"
  THEN [role |-> "tool", content |-> msg.content, tool_call_id |-> msg.toolCallId]
  ELSE IF msg.toolCalls # Undefined
  THEN [role |-> msg.role, content |-> msg.content,
        tool_calls |-> SeqMap(LAMBDA tc : [id |-> tc.id, type |-> "function",
                                           function |-> [name |-> tc.name,
                                                         arguments |-> tc.arguments]],
                              msg.toolCalls[1])]
  ELSE [role |-> msg.role, content |-> msg.content]

OllamaStream(cfg, cbs, toolList) == ~OllamaSupportsTools(cfg, toolList) /\ cbs.onChunk

OllamaRequest(cfg, cbs, toolList, messagesToSend) ==
  [provider |-> "ollama",
   baseUrl |-> OllamaBaseUrl(cfg),
   endpoint |-> "/api/chat",
   apiKey |-> Undefined,
   body |-> [model |-> cfg.model,
             messages |-> SeqMap(OllamaMessage, messagesToSend),
             stream |-> OllamaStream(cfg, cbs, toolList),
             options |-> [temperature |-> cfg.temperature,
                          num_predict |-> cfg.maxTokens],
             tools |-> IF OllamaSupportsTools(cfg, toolList)
                       THEN Some(FunctionTools(toolList)) ELSE Undefined]]

(***************************************************************************)
(* What the network can answer.  A vendor response is held in one shape    *)
(* for the four wire formats: the HTTP status, the error message of a      *)
(* failure body, the text, the tool calls (vendor id when the vendor sent  *)
(* one, the arguments as JSON text), the usage counts, and for a streamed  *)
(* body the reads, each a sequence of lines.                               *)
(***************************************************************************)
ToolNames == {"lookup", "missing"}

VendorCall(id, name) == [id |-> id, name |-> name, arguments |-> "{\"city\":\"Paris\"}"]

\* Every sequence of at most MaxToolCalls requested tools, the calls numbered
\* by the vendor; and the same for the declared tool alone with no ids sent.
VendorCallSeqs ==
  UNION {{[i \in 1..n |-> VendorCall(Some("call_" \o ToString(i)), names[i])] :
            names \in [1..n -> ToolNames]}
         \cup {[i \in 1..n |-> VendorCall(Undefined, "lookup")]} : n \in 0..MaxToolCalls}

VendorUsage == [input |-> 10, output |-> 1, total |-> 11]

\* Usage counts whose reported total is not the sum of the other two.
VendorUsageMismatched == [input |-> 10, output |-> 1, total |-> 99]

\* A line of a streamed body as chunk.split("\n") yields it: a frame the
\* vendor sent (valid: it decodes to a text fragment, possibly none, and for
\* a terminal frame to usage counts; or not valid), all of it in one read.
Line(valid, text, usage) ==
  [valid |-> valid, text |-> text, usage |-> usage, part |-> "whole"]

\* A frame with the fragment text whose bytes arrive in two consecutive
\* reads: its first bytes end one read, its last bytes begin the next.
LineHead(text) == [valid |-> TRUE, text |-> text, usage |-> Undefined, part |-> "head"]

LineTail(text) == [valid |-> TRUE, text |-> text, usage |-> Undefined, part |-> "tail"]

Reads == {<<Line(TRUE, "Hel", Undefined)>>,
          <<Line(TRUE, "l", Undefined), Line(FALSE, "", Undefined),
            Line(TRUE, "o", Undefined)>>,
          <<Line(TRUE, "", Some(VendorUsage))>>,
          <<Line(TRUE, "Hel", Undefined), LineHead("lo")>>,
          <<LineTail("lo")>>}

\* The reads of a body divide a stream of whole frames: bytes that begin a
\* frame at the end of a read are followed by the rest of it at the start
\* of the next read, and no read begins in the middle of nothing.
WellDivided(b) ==
  \A k \in 1..Len(b) :
    /\ b[k][Len(b[k])].part = "head" =>
         k < Len(b) /\ b[k + 1][1] = LineTail(b[k][Len(b[k])].text)
    /\ b[k][1].part = "tail" =>
         k > 1 /\ b[k - 1][Len(b[k - 1])] = LineHead(b[k][1].text)

StreamBodies == {b \in UNION {[1..n -> Reads] : n \in 0..MaxReads} : WellDivided(b)}

\* JSON.parse of the line (after the "data: " prefix, where the format has
\* one) returns: the line is a valid frame and all of it is there.  Of a
\* frame cut in two, the first piece is an unterminated JSON text and the
\* second lacks the prefix or has unbalanced closing brackets.
Decodes(l) == l.valid /\ l.part = "whole"

\* The shape of the body: "full" is JSON with the fields the adapter reads,
\* "empty" is the JSON object {} and "notJson" is no JSON at all.
Response(ok, errorMessage, hasBody, text, calls, usage) ==
  [ok |-> ok, errorMessage |-> errorMessage, hasBody |-> hasBody,
   text |-> text, calls |-> calls, usage |-> usage, shape |-> "full"]

Malformed(resp, shape) == [resp EXCEPT !.shape = shape]

FailureResponses ==
  {Response(FALSE, Some("quota exceeded"), TRUE, "", <<>>, Undefined),
   Malformed(Response(FALSE, Undefined, TRUE, "", <<>>, Undefined), "empty"),
   Malformed(Response(FALSE, Undefined, TRUE, "", <<>>, Undefined), "notJson")}

BufferedResponses ==
  {Response(TRUE, Undefined, TRUE, "It is 20C", <<>>, Some(VendorUsage)),
   Response(TRUE, Undefined, TRUE, "It is 20C", <<>>, Some(VendorUsageMismatched)),
   Response(TRUE, Undefined, TRUE, "", <<>>, Undefined),
   Malformed(Response(TRUE, Undefined, TRUE, "", <<>>, Undefined), "empty"),
   Malformed(Response(TRUE, Undefined, TRUE, "", <<>>, Undefined), "notJson"),
   Response(TRUE, Undefined, TRUE, "", <<VendorCall(Some("call_1"), "lookup")>>, Undefined)}
  \cup {Response(TRUE, Undefined, TRUE, "", calls, Some(VendorUsage)) :
          calls \in VendorCallSeqs \ {<<>>}}

(***************************************************************************)
(* Buffered response parsing, one per adapter.                             *)
(***************************************************************************)
Uuid(n) == "uuid-" \o ToString(n)

parseToolArguments(argumentsStr) ==
  IF JSONParses(argumentsStr) THEN JSONParse(argumentsStr) ELSE JsObject("{}")

Result(content, tokenUsage, toolCalls) ==
  [content |-> content, tokenUsage |-> tokenUsage, toolCalls |-> toolCalls]

OpenAIParse(resp) ==
  Result(resp.text,
         IF resp.usage # Undefined
         THEN Some([inputTokens |-> resp.usage[1].input,
                    outputTokens |-> resp.usage[1].output,
                    totalTokens |-> resp.usage[1].total])
         ELSE Undefined,
         IF Len(resp.calls) > 0
         THEN Some(SeqMap(LAMBDA tc : [id |-> tc.id, name |-> tc.name,
                                       arguments |-> parseToolArguments(tc.arguments)],
                          resp.calls))
         ELSE Undefined)

AnthropicParse(resp) ==
  Result(resp.text,
         IF resp.usage # Undefined
         THEN Some([inputTokens |-> resp.usage[1].input,
                    outputTokens |-> resp.usage[1].output,
                    totalTokens |-> resp.usage[1].input + resp.usage[1].output])
         ELSE Undefined,
         IF Len(resp.calls) > 0
         THEN Some(SeqMap(LAMBDA tc : [id |-> tc.id, name |-> tc.name,
                                       arguments |-> JSONParse(tc.arguments)],
                          resp.calls))
         ELSE Undefined)

\* Google sends no call ids: the k-th call gets the k-th fresh uuid from n on.
GoogleParse(resp, n) ==
  Result(resp.text,
         IF resp.usage # Undefined
         THEN Some([inputTokens |-> resp.usage[1].input,
                    outputTokens |-> resp.usage[1].output,
                    totalTokens |-> resp.usage[1].total])
         ELSE Undefined,
         IF Len(resp.calls) > 0
         THEN Some([k \in 1..Len(resp.calls) |->
                      [id |-> Some(Uuid(n + k - 1)), name |-> resp.calls[k].name,
                       arguments |-> JSONParse(resp.calls[k].arguments)]])
         ELSE Undefined)

OllamaParse(resp) ==
  Result(IF resp.text # "" THEN resp.text ELSE "No response received",
         IF resp.usage # Undefined /\ resp.usage[1].input # 0 /\ resp.usage[1].output # 0
         THEN Some([inputTokens |-> resp.usage[1].input,
                    outputTokens |-> resp.usage[1].output,
                    totalTokens |-> resp.usage[1].input + resp.usage[1].output])
         ELSE Undefined,
         IF Len(resp.calls) > 0
         THEN Some(SeqMap(LAMBDA tc : [id |-> tc.id, name |-> tc.name,
                                       arguments |-> parseToolArguments(tc.arguments)],
                          resp.calls))
         ELSE Undefined)

\* await response.json() throws on a body that is no JSON; callOpenAI reads
\* data.choices[0] unguarded, the other adapters guard every field.
ParseThrows(p, resp) ==
  \/ resp.shape = "notJson"
  \/ resp.shape = "empty" /\ p = "openai"

ParseError(p, resp) ==
  IF resp.shape = "notJson"
  THEN Err("SyntaxError", "Unexpected token in JSON")
  ELSE Err("TypeError", "Cannot read properties of undefined (reading '0')")

ParseBuffered(p, resp, n) ==
  CASE p = "openai"    -> OpenAIParse(resp)
    [] p = "anthropic" -> AnthropicParse(resp)
    [] p = "google"    -> GoogleParse(resp, n)
    [] p = "ollama"    -> OllamaParse(resp)

\* The uuids the parse has drawn.
ParseUuids(p, resp) == IF p = "google" THEN Len(resp.calls) ELSE 0

\* `${Vendor} API error: ${error.error?.message || "Unknown error"}`; Ollama
\* reports the status text.
ProviderErrorMessage(p, resp) ==
  CASE p = "openai"    -> "OpenAI API error: "
                          \o (IF Truthy(resp.errorMessage) THEN resp.errorMessage[1]
                              ELSE "Unknown error")
    [] p = "anthropic" -> "Anthropic API error: "
                          \o (IF Truthy(resp.errorMessage) THEN resp.errorMessage[1]
                              ELSE "Unknown error")
    [] p = "google"    -> "Google API error: "
                          \o (IF Truthy(resp.errorMessage) THEN resp.errorMessage[1]
                              ELSE "Unknown error")
    [] p = "ollama"    -> "Ollama API error: " \o "Too Many Requests"

(***************************************************************************)
(* createApiCall and the adapters, as operators from the locals of the     *)
(* call to its locals at the next await (or at its end).                   *)
(***************************************************************************)
Reject(c, e) ==
  [c EXCEPT !.pc = "done",
            !.outcome = Some([status |-> "rejected", value |-> Undefined, error |-> Some(e)])]

\* The tail of createApiCall: the adapter's result becomes the call's result.
Resolve(c, r) ==
  [c EXCEPT !.pc = "done",
            !.outcome = Some([status |-> "resolved",
                              value |-> Some([content |-> r.content,
                                              metadata |->
                                                [tokenUsage |-> r.tokenUsage,
                                                 cost |-> IF r.tokenUsage # Undefined
                                                          THEN Some(calculateCost(
                                                                 r.tokenUsage[1],
                                                                 c.mergedConfig[1].model))
                                                          ELSE Undefined],
                                              toolCalls |-> r.toolCalls]),
                              error |-> Undefined])]

\* A merge in the other order: the given config over the stored values.
MergedConfigGivenWins(cfg, providerConfig) ==
  [cfg EXCEPT
     !.apiKey  = IF ~Truthy(@) /\ providerConfig # Undefined /\ Truthy(providerConfig[1].apiKey)
                 THEN providerConfig[1].apiKey ELSE @,
     !.baseUrl = IF ~Truthy(@) /\ providerConfig # Undefined /\ Truthy(providerConfig[1].baseUrl)
                 THEN providerConfig[1].baseUrl ELSE @]

\* The stored apiKey and baseUrl of the provider, when truthy, over the given config.
MergedConfig(cfg, providerConfig) ==
  [cfg EXCEPT
     !.apiKey  = IF providerConfig # Undefined /\ Truthy(providerConfig[1].apiKey)
                 THEN providerConfig[1].apiKey ELSE @,
     !.baseUrl = IF providerConfig # Undefined /\ Truthy(providerConfig[1].baseUrl)
                 THEN providerConfig[1].baseUrl ELSE @]

\* callOllama is called without onToolCall and onToolResult.
AdapterCallbacks(p) ==
  IF p = "ollama"
  THEN [onChunk |-> callbacks.onChunk, onToolCall |-> FALSE, onToolResult |-> FALSE]
  ELSE callbacks

\* An adapter without its credential check.
CredentialMissingNever(p, cfg) == FALSE

\* if (!config.apiKey) throw ...; callOllama has no such check.
CredentialMissing(p, cfg) == p \in CloudProviders /\ ~Truthy(cfg.apiKey)

MissingCredentialMessage(p) ==
  CASE p = "openai"    -> "OpenAI API key is required"
    [] p = "anthropic" -> "Anthropic API key is required"
    [] p = "google"    -> "Google API key is required"

BuildRequest(p, cfg, cbs, toolList, messagesToSend) ==
  CASE p = "openai"    -> OpenAIRequest(cfg, cbs, toolList, messagesToSend)
    [] p = "anthropic" -> AnthropicRequest(cfg, cbs, toolList, messagesToSend)
    [] p = "google"    -> GoogleRequest(cfg, cbs, toolList, messagesToSend)
    [] p = "ollama"    -> OllamaRequest(cfg, cbs, toolList, messagesToSend)

\* The adapter's condition for reading the response as a stream.
UseStreaming(p, cfg, cbs, toolList) ==
  CASE p = "openai"    -> OpenAIStream(cbs, toolList)
    [] p = "anthropic" -> AnthropicStream(cbs, toolList)
    [] p = "google"    -> GoogleUseStreaming(cbs, toolList)
    [] p = "ollama"    -> OllamaStream(cfg, cbs, toolList)

\* makeApiCall up to its await fetch(...).
makeApiCall(c, messagesToSend) ==
  LET p   == c.provider[1]
      cfg == c.mergedConfig[1]
  IN  IF p = "google" /\ GoogleBodyThrows(messagesToSend)
      THEN Reject(c, Err("SyntaxError", "Unexpected token in JSON"))
      ELSE [c EXCEPT !.pc = "awaitFetch",
                     !.round = @ + 1,
                     !.fetchLog = Append(@, BuildRequest(p, cfg, AdapterCallbacks(p),
                                                         tools, messagesToSend))]

callAdapter(c) ==
  LET p == c.provider[1]
  IN  IF CredentialMissing(p, c.mergedConfig[1])
      THEN Reject(c, Err("Error", MissingCredentialMessage(p)))
      ELSE makeApiCall(c, messages)

createApiCall(c) ==
  LET provider == getProviderForModel(config.model)
  IN  IF provider = Undefined
      THEN Reject(c, Err("Error", "Unknown provider for model: " \o config.model))
      ELSE callAdapter([c EXCEPT
             !.provider = provider,
             !.storageReads = @ + 1,
             !.mergedConfig = Some(MergedConfig(config, localStorage[provider[1]])),
             !.dispatched = provider])

(***************************************************************************)
(* The tool executor and the tool round.                                   *)
(***************************************************************************)
\* What a tool body does: it returns a value, throws an Error, or throws
\* something that is no Error.
ToolOutcomes ==
  {[kind |-> "return", value |-> JsObject("{\"temp\":20}"), message |-> ""],
   [kind |-> "throw", value |-> JsObject("{}"), message |-> "network down"],
   [kind |-> "throwNonError", value |-> JsObject("{}"), message |-> ""]}

\* executeTool: the value, or Error("Tool execution failed: " + message).
executeTool(o) ==
  IF o.kind = "return"
  THEN [ok |-> TRUE, value |-> o.value, error |-> Undefined]
  ELSE [ok |-> FALSE, value |-> o.value,
        error |-> Some(Err("Error", "Tool execution failed: "
                                    \o (IF o.kind = "throw" THEN o.message
                                        ELSE "Unknown error")))]

toolCallsToExecute(r) == IF r.toolCalls = Undefined THEN <<>> ELSE r.toolCalls[1]

\* tools.find((t) => t.function.name === toolCall.name) finds a tool
ToolFound(toolList, name) == \E i \in 1..Len(toolList) : toolList[i].name = name

\* A try branch that puts String(result) in the tool message.
ToolSucceededUnserialized(c, cbs, tc, result) ==
  [c EXCEPT
     !.toolResultLog = IF cbs.onToolResult
                       THEN Append(@, [toolCallId |-> tc.id, result |-> Some(result),
                                       error |-> Undefined])
                       ELSE @,
     !.messagesWithToolCalls =
        Append(@, Msg(Uuid(c.nextUuid), "tool", "[object Object]", Undefined, tc.id)),
     !.nextUuid = @ + 1]

\* The try branch after executeTool resolved: onToolResult, then the tool message.
ToolSucceeded(c, cbs, tc, result) ==
  [c EXCEPT
     !.toolResultLog = IF cbs.onToolResult
                       THEN Append(@, [toolCallId |-> tc.id, result |-> Some(result),
                                       error |-> Undefined])
                       ELSE @,
     !.messagesWithToolCalls =
        Append(@, Msg(Uuid(c.nextUuid), "tool", JSONStringify(result), Undefined, tc.id)),
     !.nextUuid = @ + 1]

\* The catch branch: onToolResult with the error, then the error message.
ToolFailed(c, cbs, tc, errorMessage) ==
  [c EXCEPT
     !.toolResultLog = IF cbs.onToolResult
                       THEN Append(@, [toolCallId |-> tc.id, result |-> Undefined,
                                       error |-> Some(errorMessage)])
                       ELSE @,
     !.messagesWithToolCalls =
        Append(@, Msg(Uuid(c.nextUuid), "tool", "Error: " \o errorMessage, Undefined, tc.id)),
     !.nextUuid = @ + 1,
     !.caught = Append(@, [toolCallId |-> tc.id, errorMessage |-> errorMessage])]

NotifyToolCall(c, cbs, tc) ==
  [c EXCEPT !.toolCallLog = IF cbs.onToolCall THEN Append(@, tc) ELSE @]

\* What the record of the call keeps of a tool execution that starts or
\* settles: the position of the tool call, the value executeTool resolved
\* with, and how long the working history was at that moment.
ToolEvent(kind, index, result, history) ==
  [kind |-> kind, index |-> index, result |-> result, history |-> Len(history)]

\* A loop that starts every tool without awaiting it.
RECURSIVE RunToolLoopNoAwait(_, _)
RunToolLoopNoAwait(c, i) ==
  LET cbs == AdapterCallbacks(c.provider[1])
      tcs == toolCallsToExecute(c.initialResult[1])
  IN  IF i > Len(tcs)
      THEN makeApiCall(c, c.messagesWithToolCalls)
      ELSE LET tc == tcs[i]
               c1 == NotifyToolCall(c, cbs, tc)
           IN  IF ~ToolFound(tools, tc.name)
               THEN RunToolLoopNoAwait(
                      ToolFailed(c1, cbs, tc, "Tool \"" \o tc.name \o "\" not found"), i + 1)
               ELSE RunToolLoopNoAwait(
                      [c1 EXCEPT !.toolIdx = i,
                                 !.executeLog = Append(@, [name |-> tc.name,
                                                           args |-> tc.arguments]),
                                 !.toolEvents = Append(@, ToolEvent("start", i, Undefined,
                                                                    c1.messagesWithToolCalls))],
                      i + 1)

\* The for loop from tool call i on, up to the next await executeTool(...)
\* or, past the last tool call, up to the await of the final makeApiCall.
RECURSIVE RunToolLoop(_, _)
RunToolLoop(c, i) ==
  LET cbs == AdapterCallbacks(c.provider[1])
      tcs == toolCallsToExecute(c.initialResult[1])
  IN  IF i > Len(tcs)
      THEN makeApiCall(c, c.messagesWithToolCalls)
      ELSE LET tc == tcs[i]
               c1 == NotifyToolCall(c, cbs, tc)
           IN  IF ~ToolFound(tools, tc.name)
               THEN RunToolLoop(
                      ToolFailed(c1, cbs, tc, "Tool \"" \o tc.name \o "\" not found"), i + 1)
               ELSE [c1 EXCEPT !.pc = "awaitTool",
                               !.toolIdx = i,
                               !.executeLog = Append(@, [name |-> tc.name,
                                                         args |-> tc.arguments]),
                               !.toolEvents = Append(@, ToolEvent("start", i, Undefined,
                                                                  c1.messagesWithToolCalls))]

\* A test that sends every result into the tool round.
NoToolCallsNever(r) == FALSE

\* if (!initialResult.toolCalls || initialResult.toolCalls.length === 0)
NoToolCalls(r) == r.toolCalls = Undefined \/ Len(r.toolCalls[1]) = 0

\* An Ollama adapter without the early return for models without tool support.
SimpleCallNever(c) == FALSE

\* for Ollama: if (!supportsTools) return await makeApiCall(messages)
SimpleCall(c) ==
  c.provider[1] = "ollama" /\ ~OllamaSupportsTools(c.mergedConfig[1], tools)

\* After the initial makeApiCall returned r.
AfterInitialCall(c, r) ==
  IF SimpleCall(c) \/ NoToolCalls(r)
  THEN Resolve(c, r)
  ELSE RunToolLoop(
         [c EXCEPT
            !.initialResult = Some(r),
            !.messagesWithToolCalls =
               Append(messages, Msg(Uuid(c.nextUuid), "assistant", r.content,
                                    Some(toolCallsToExecute(r)), Undefined)),
            !.nextUuid = @ + 1],
         1)

\* A merge that keeps the usage of the final round alone.
combinedTokenUsageFinalOnly(initialUsage, finalUsage) ==
  IF finalUsage # Undefined THEN finalUsage ELSE initialUsage

combinedTokenUsage(initialUsage, finalUsage) ==
  IF initialUsage # Undefined /\ finalUsage # Undefined
  THEN Some([inputTokens  |-> initialUsage[1].inputTokens + finalUsage[1].inputTokens,
             outputTokens |-> initialUsage[1].outputTokens + finalUsage[1].outputTokens,
             totalTokens  |-> initialUsage[1].totalTokens + finalUsage[1].totalTokens])
  ELSE IF finalUsage # Undefined THEN finalUsage ELSE initialUsage

\* A tool loop that runs another round when the final response asks for tools.
AfterFinalCallChained(c, r) ==
  IF r.toolCalls = Undefined
  THEN Resolve(c, Result(r.content,
                         combinedTokenUsage(c.initialResult[1].tokenUsage, r.tokenUsage),
                         Some(toolCallsToExecute(c.initialResult[1]))))
  ELSE RunToolLoop(
         [c EXCEPT
            !.initialResult = Some(r),
            !.messagesWithToolCalls =
               Append(@, Msg(Uuid(c.nextUuid), "assistant", r.content,
                             Some(toolCallsToExecute(r)), Undefined)),
            !.nextUuid = @ + 1],
         1)

\* After the final makeApiCall returned r.
AfterFinalCall(c, r) ==
  Resolve(c, Result(r.content,
                    combinedTokenUsage(c.initialResult[1].tokenUsage, r.tokenUsage),
                    Some(toolCallsToExecute(c.initialResult[1]))))

AfterApiCall(c, r) ==
  IF c.round = 1 THEN AfterInitialCall(c, r) ELSE AfterFinalCall(c, r)

\* A read abandoned at its first line that does not decode.
RECURSIVE ProcessLinesUntilBad(_, _)
ProcessLinesUntilBad(c, lines) ==
  IF lines = <<>> \/ ~Decodes(Head(lines)) THEN c
  ELSE LET l == Head(lines)
       IN  ProcessLinesUntilBad(
             IF l.text # ""
             THEN [c EXCEPT !.fullContent = @ \o l.text, !.chunkLog = Append(@, l.text)]
             ELSE c,
             Tail(lines))

\* A read whose lines are handled last line first.
RECURSIVE ProcessLinesReversed(_, _)
ProcessLinesReversed(c, lines) ==
  IF lines = <<>> THEN c
  ELSE LET l  == lines[Len(lines)]
       IN  ProcessLinesReversed(
             IF Decodes(l) /\ l.text # ""
             THEN [c EXCEPT !.fullContent = @ \o l.text, !.chunkLog = Append(@, l.text)]
             ELSE c,
             SubSeq(lines, 1, Len(lines) - 1))

\* One read of the stream: each decodable line with a non-empty fragment is
\* appended to fullContent and passed to onChunk; Ollama also keeps the
\* usage of a terminal frame.
RECURSIVE ProcessLines(_, _)
ProcessLines(c, lines) ==
  IF lines = <<>> THEN c
  ELSE LET l  == Head(lines)
           c1 == IF Decodes(l) /\ l.text # ""
                 THEN [c EXCEPT !.fullContent = @ \o l.text,
                                !.chunkLog = Append(@, l.text)]
                 ELSE c
           c2 == IF Decodes(l) /\ c.provider[1] = "ollama" /\ l.usage # Undefined
                    /\ l.usage[1].input # 0 /\ l.usage[1].output # 0
                 THEN [c1 EXCEPT !.streamUsage =
                         Some([inputTokens |-> l.usage[1].input,
                               outputTokens |-> l.usage[1].output,
                               totalTokens |-> l.usage[1].input + l.usage[1].output])]
                 ELSE c1
       IN  ProcessLines(c2, Tail(lines))

\* A streamed result without the placeholder.
StreamResultRaw(c) == Result(c.fullContent, c.streamUsage, Undefined)

StreamResult(c) ==
  Result(IF c.fullContent # "" THEN c.fullContent ELSE "No response received",
         c.streamUsage, Undefined)

(***************************************************************************)
(* Actions.                                                                *)
(***************************************************************************)
\* A tool round that pushes to the caller's array itself.
CallerMessagesShared(c) ==
  IF c.initialResult # Undefined THEN c.messagesWithToolCalls ELSE messages

\* What the caller's array holds when the call has the locals c: the tool
\* round pushes to messagesWithToolCalls, a copy ([...messages]), and no
\* adapter assigns to the array or to a message in it.
CallerMessages(c) == messages

\* The caller invokes createApiCall; it runs to its first await.
CreateApiCall ==
  /\ call.pc = "idle"
  /\ call' = createApiCall(call)
  /\ messages' = CallerMessages(call')
  /\ UNCHANGED <<config, tools, callbacks, localStorage, costCalls, hook, ab>>

\* fetch rejects (no connection): the error propagates out of the call.
FetchRejects ==
  /\ call.pc = "awaitFetch"
  /\ call' = Reject(call, Err("TypeError", "Failed to fetch"))
  /\ messages' = CallerMessages(call')
  /\ UNCHANGED <<config, tools, callbacks, localStorage, costCalls, hook, ab>>

\* A non-success HTTP response.
ResponseNotOk ==
  /\ call.pc = "awaitFetch"
  /\ \E resp \in FailureResponses :
       LET c == [call EXCEPT !.response = Some(resp)]
       IN  call' = IF resp.shape = "notJson" /\ call.provider[1] # "ollama"
                   THEN Reject(c, ParseError(call.provider[1], resp))
                   ELSE Reject(c, Err("Error", ProviderErrorMessage(call.provider[1], resp)))
  /\ messages' = CallerMessages(call')
  /\ UNCHANGED <<config, tools, callbacks, localStorage, costCalls, hook, ab>>

StreamsResponse(c) ==
  UseStreaming(c.provider[1], c.mergedConfig[1], AdapterCallbacks(c.provider[1]), tools)

\* A success response on the streaming path: the reader is taken.
ResponseStreams ==
  /\ call.pc = "awaitFetch"
  /\ StreamsResponse(call)
  /\ \E b \in StreamBodies :
       call' = [call EXCEPT !.pc = "reading", !.streaming = TRUE, !.body = b]
  /\ messages' = CallerMessages(call')
  /\ UNCHANGED <<config, tools, callbacks, localStorage, costCalls, hook, ab>>

\* reader.read() delivers the next read.
ReaderRead ==
  /\ call.pc = "reading"
  /\ call.body # <<>>
  /\ call' = ProcessLines([call EXCEPT !.body = Tail(@),
                                       !.received = @ \o Head(call.body)],
                          Head(call.body))
  /\ messages' = CallerMessages(call')
  /\ UNCHANGED <<config, tools, callbacks, localStorage, costCalls, hook, ab>>

\* reader.read() reports done: makeApiCall returns the streamed content.
ReaderDone ==
  /\ call.pc = "reading"
  /\ call.body = <<>>
  /\ call' = AfterApiCall([call EXCEPT !.returned = Append(@, StreamResult(call))],
                          StreamResult(call))
  /\ messages' = CallerMessages(call')
  /\ UNCHANGED <<config, tools, callbacks, localStorage, costCalls, hook, ab>>

\* A success response on the buffered path: it is parsed and the adapter goes on.
ResponseBuffered ==
  /\ call.pc = "awaitFetch"
  /\ ~StreamsResponse(call)
  /\ \E resp \in BufferedResponses :
       LET p == call.provider[1]
           r == ParseBuffered(p, resp, call.nextUuid)
       IN  call' = IF ParseThrows(p, resp)
                   THEN Reject([call EXCEPT !.response = Some(resp)], ParseError(p, resp))
                   ELSE AfterApiCall(
                          [call EXCEPT !.response = Some(resp),
                                       !.nextUuid = @ + ParseUuids(p, resp),
                                       !.returned = Append(@, r)],
                          r)
  /\ messages' = CallerMessages(call')
  /\ UNCHANGED <<config, tools, callbacks, localStorage, costCalls, hook, ab>>

\* The awaited executeTool settles; the loop goes on to its next await.
ToolSettles ==
  /\ call.pc = "awaitTool"
  /\ \E o \in ToolOutcomes :
       LET cbs == AdapterCallbacks(call.provider[1])
           tc  == toolCallsToExecute(call.initialResult[1])[call.toolIdx]
           res == executeTool(o)
           c0  == [call EXCEPT !.toolEvents =
                             Append(@, ToolEvent("settled", call.toolIdx,
                                                 IF res.ok THEN Some(res.value) ELSE Undefined,
                                                 call.messagesWithToolCalls))]
           c1  == IF o.kind = "throw"
                  THEN [c0 EXCEPT !.thrown = Append(@, [toolCallId |-> tc.id,
                                                        index |-> call.toolIdx,
                                                        message |-> o.message])]
                  ELSE c0
       IN  call' = RunToolLoop(
                     IF res.ok THEN ToolSucceeded(c1, cbs, tc, res.value)
                     ELSE ToolFailed(c1, cbs, tc, res.error[1].message),
                     call.toolIdx + 1)
  /\ messages' = CallerMessages(call')
  /\ UNCHANGED <<config, tools, callbacks, localStorage, costCalls, hook, ab>>

Next ==
  \/ CreateApiCall
  \/ FetchRejects
  \/ ResponseNotOk
  \/ ResponseStreams
  \/ ReaderRead
  \/ ReaderDone
  \/ ResponseBuffered
  \/ ToolSettles

Spec == Init /\ [][Next]_vars

(***************************************************************************)
(* calculateCost called on its own, twice, with any usage and any model    *)
(* id, in the registry or not.                                             *)
(***************************************************************************)
TokenUsages ==
  {[inputTokens |-> i, outputTokens |-> o, totalTokens |-> i + o] :
     i \in 0..MaxTokenCount, o \in 0..MaxTokenCount}

CostModelIds ==
  UNION {{MODELS[p][k].id : k \in 1..Len(MODELS[p])} : p \in Providers}
  \cup {"gpt-4o", "does-not-exist"}

CostCall(tokenUsage, modelId) ==
  [tokenUsage |-> tokenUsage, modelId |-> modelId,
   cost |-> calculateCost(tokenUsage, modelId)]

CostInit ==
  /\ messages = <<Msg("m1", "user", "2+2?", Undefined, Undefined)>>
  /\ config = [model |-> "gpt-4o-mini", apiKey |-> Undefined, baseUrl |-> Undefined,
               temperature |-> 2, maxTokens |-> 100]
  /\ tools = <<>>
  /\ callbacks = [onChunk |-> FALSE, onToolCall |-> FALSE, onToolResult |-> FALSE]
  /\ localStorage = [p \in Providers |-> Undefined]
  /\ call = InitialCall
  /\ costCalls = <<>>
  /\ hook = InitialHook
  /\ ab = InitialAB

CalculateCost ==
  /\ costCalls = <<>>
  /\ \E u \in TokenUsages, id \in CostModelIds : costCalls' = <<CostCall(u, id)>>
  /\ UNCHANGED <<inputs, call, hook, ab>>

CalculateCostAgain ==
  /\ Len(costCalls) = 1
  /\ \E u \in TokenUsages, id \in CostModelIds :
       costCalls' = Append(costCalls, CostCall(u, id))
  /\ UNCHANGED <<inputs, call, hook, ab>>

CostNext ==
  \/ CalculateCost
  \/ CalculateCostAgain

CostSpec == CostInit /\ [][CostNext]_vars

(***************************************************************************)
(* Vocabulary of the properties.                                           *)
(***************************************************************************)
RegistryIds == UNION {{MODELS[p][k].id : k \in 1..Len(MODELS[p])} : p \in Providers}

Sent == {call.fetchLog[i] : i \in 1..Len(call.fetchLog)}

\* The request asks for the streaming transport.
StreamRequested(req) ==
  IF req.provider = "google" THEN req.method = "streamGenerateContent"
  ELSE req.body.stream

Rejected == call.outcome # Undefined /\ call.outcome[1].status = "rejected"

Resolved == call.outcome # Undefined /\ call.outcome[1].status = "resolved"

RejectionMessage == call.outcome[1].error[1].message

ReturnedContent == call.outcome[1].value[1].content

MissingCredentialMessages ==
  {"OpenAI API key is required", "Anthropic API key is required",
   "Google API key is required"}

StoredApiKey(p) ==
  IF localStorage[p] = Undefined THEN Undefined ELSE localStorage[p][1].apiKey

StoredBaseUrl(p) ==
  IF localStorage[p] = Undefined THEN Undefined ELSE localStorage[p][1].baseUrl

\* The tool calls of the k-th result a makeApiCall returned.
ReturnedToolCalls(k) ==
  IF call.returned[k].toolCalls = Undefined THEN <<>> ELSE call.returned[k].toolCalls[1]

\* The token usage of the value createApiCall resolved with.
ReturnedUsage == call.outcome[1].value[1].metadata.tokenUsage

ProviderErrorPrefix(p) ==
  CASE p = "openai"    -> "OpenAI API error: "
    [] p = "anthropic" -> "Anthropic API error: "
    [] p = "google"    -> "Google API error: "
    [] p = "ollama"    -> "Ollama API error: "

\* The messages an adapter gives a provider error that carries no vendor message.
GenericErrorTexts == {"Unknown error", "Too Many Requests"}

\* The last response was a non-success HTTP response.
NonSuccess == call.response # Undefined /\ ~call.response[1].ok

\* The text fragments of the lines decoded from the reads, in order.
RECURSIVE Fragments(_)
Fragments(lines) ==
  IF lines = <<>> THEN <<>>
  ELSE (IF Decodes(Head(lines)) /\ Head(lines).text # "" THEN <<Head(lines).text>> ELSE <<>>)
       \o Fragments(Tail(lines))

RECURSIVE Concat(_)
Concat(strings) ==
  IF strings = <<>> THEN "" ELSE Head(strings) \o Concat(Tail(strings))

\* The streamed makeApiCall has returned.
StreamOver == call.streaming /\ call.pc = "done" /\ Len(call.returned) = 1

\* The tool loop has run past its last tool call.
ToolLoopOver == call.initialResult # Undefined /\ call.pc # "awaitTool"

(***************************************************************************)
(* C1.  With a non-empty tools list no request asks for the streaming      *)
(* transport (stream flag false, Google endpoint generateContent) and      *)
(* onChunk is never invoked, for every adapter and every registry entry.   *)
(* The Ollama adapter streams for a model without tool support.            *)
(***************************************************************************)
C1_NoStreamingWithTools ==
  Len(tools) > 0 =>
    /\ \A req \in Sent : ~StreamRequested(req)
    /\ call.chunkLog = <<>>

(***************************************************************************)
(* C2.  When the first adapter invocation returns zero tool calls, the     *)
(* call has made exactly one network request, has executed no tool, has    *)
(* fired no onToolCall/onToolResult and has returned that result as it is. *)
(***************************************************************************)
C2_NoToolCallsOneRequest ==
  (Len(call.returned) >= 1 /\ ReturnedToolCalls(1) = <<>>) =>
    /\ Len(call.fetchLog) = 1
    /\ Len(call.returned) = 1
    /\ call.executeLog = <<>>
    /\ call.toolCallLog = <<>>
    /\ call.toolResultLog = <<>>
    /\ call.pc = "done"
    /\ Resolved
    /\ ReturnedContent = call.returned[1].content
    /\ call.outcome[1].value[1].metadata.tokenUsage = call.returned[1].tokenUsage
    /\ call.outcome[1].value[1].toolCalls = call.returned[1].toolCalls

\* A call with tools supplied whose first response asks for no tool.
C2_Witness ==
  /\ Len(tools) > 0
  /\ call.provider = Some("openai")
  /\ Len(call.returned) = 1
  /\ ReturnedToolCalls(1) = <<>>
  /\ call.returned[1].content = "It is 20C"
  /\ call.pc = "done"

(***************************************************************************)
(* C3.  A call makes at most two network requests; once the second         *)
(* response is returned the call is over with that response's content,     *)
(* and only the first response's tool calls were announced, executed and   *)
(* answered in the history.                                                *)
(***************************************************************************)
C3_AtMostTwoRounds ==
  /\ Len(call.fetchLog) <= 2
  /\ Len(call.returned) <= 2
  /\ Len(call.returned) = 2 =>
       /\ call.pc = "done"
       /\ Resolved
       /\ ReturnedContent = call.returned[2].content
       /\ Len(call.executeLog) <= Len(ReturnedToolCalls(1))
       /\ Len(call.toolCallLog) <= Len(ReturnedToolCalls(1))
       /\ Len(call.messagesWithToolCalls) = Len(messages) + 1 + Len(ReturnedToolCalls(1))

\* The second response itself asks for tools.
C3_Witness ==
  /\ Len(call.returned) = 2
  /\ ReturnedToolCalls(2) # <<>>
  /\ call.pc = "done"

(***************************************************************************)
(* C4.  When a requested tool is missing or its body fails, the failure    *)
(* becomes a tool-role error message of the working history, the second    *)
(* request is still made, and the call completes with the second round's   *)
(* content (stated for calls that supply tools).  The Google adapter fails *)
(* while building the second request.                                      *)
(***************************************************************************)
C4_ToolFailureRecovered ==
  (Len(tools) > 0 /\ call.caught # <<>> /\ ToolLoopOver) =>
    /\ \A i \in 1..Len(call.caught) :
         \E k \in 1..Len(call.messagesWithToolCalls) :
            /\ call.messagesWithToolCalls[k].role = "tool"
            /\ call.messagesWithToolCalls[k].toolCallId = call.caught[i].toolCallId
            /\ call.messagesWithToolCalls[k].content
                 = "Error: " \o call.caught[i].errorMessage
    /\ Len(call.fetchLog) = 2
    /\ ~(Rejected /\ call.outcome[1].error[1].name = "SyntaxError")
    /\ Len(call.returned) = 2 => (Resolved /\ ReturnedContent = call.returned[2].content)

(***************************************************************************)
(* C5.  When a tool body throws an error with message M, the tool-role     *)
(* message appended for that tool call has content "Error: " followed by   *)
(* M, and the call goes on to its second request.  The content carries     *)
(* executeTool's prefix "Tool execution failed: " as well.                 *)
(***************************************************************************)
C5_ToolErrorContent ==
  /\ \A i \in 1..Len(call.thrown) :
       LET m == call.messagesWithToolCalls[Len(messages) + 1 + call.thrown[i].index]
       IN  /\ m.role = "tool"
           /\ m.toolCallId = call.thrown[i].toolCallId
           /\ m.content = "Error: " \o call.thrown[i].message
  /\ (call.thrown # <<>> /\ ToolLoopOver) => Len(call.fetchLog) = 2

(***************************************************************************)
(* C6.  For a cloud provider whose merged config has no apiKey the call    *)
(* is over, rejected with that provider's missing-key error, and no        *)
(* network request was made.                                               *)
(***************************************************************************)
C6_MissingKeyNoRequest ==
  (/\ call.provider # Undefined
   /\ call.provider[1] \in CloudProviders
   /\ ~Truthy(call.mergedConfig[1].apiKey)) =>
     /\ call.pc = "done"
     /\ Rejected
     /\ RejectionMessage \in MissingCredentialMessages
     /\ call.fetchLog = <<>>
     /\ call.executeLog = <<>>

\* Anthropic model, nothing stored for it and no key in the given config.
C6_Witness ==
  /\ call.provider = Some("anthropic")
  /\ config.apiKey = Undefined
  /\ ~Truthy(StoredApiKey("anthropic"))
  /\ Rejected
  /\ RejectionMessage = "Anthropic API key is required"

(***************************************************************************)
(* C7, as claimed.  For the Ollama adapter, when neither the given config  *)
(* nor the store supplies a baseUrl, the call fails with a                 *)
(* missing-credential error and makes no network request.                  *)
(***************************************************************************)
NoOllamaBaseUrl ==
  /\ call.provider = Some("ollama")
  /\ ~Truthy(config.baseUrl)
  /\ ~Truthy(StoredBaseUrl("ollama"))

C8_UnknownModelFailsFirst ==
  (call.pc # "idle" /\ config.model \notin RegistryIds) =>
    /\ call.pc = "done"
    /\ Rejected
    /\ RejectionMessage = "Unknown provider for model: " \o config.model
    /\ call.storageReads = 0
    /\ call.dispatched = Undefined
    /\ call.mergedConfig = Undefined
    /\ call.fetchLog = <<>>
    /\ call.executeLog = <<>>

C8_Witness ==
  /\ config.model = "does-not-exist"
  /\ Len(tools) > 0
  /\ localStorage["openai"] # Undefined
  /\ Rejected

(***************************************************************************)
(* C9.  Secrets do not leak across providers: no request sent to a cloud   *)
(* provider P carries an apiKey that belongs to another provider, whatever *)
(* the given config carries and also when the store holds no apiKey for P. *)
(* The merge keeps the given apiKey when nothing is stored for P.          *)
(***************************************************************************)
C9_NoForeignKeySent ==
  \A req \in Sent :
     \A q \in CloudProviders \ {req.provider} : req.apiKey # Some(KeyOf(q))

(***************************************************************************)
(* C10.  When the store holds a non-empty apiKey (baseUrl) for the         *)
(* resolved provider, the config the adapter gets carries the stored       *)
(* value whatever the given config carried, and requests are sent with it; *)
(* model, temperature and maxTokens are those of the given config.         *)
(***************************************************************************)
C10_StoredCredentialsWin ==
  call.mergedConfig # Undefined =>
    LET p == call.provider[1]
        m == call.mergedConfig[1]
    IN  /\ Truthy(StoredApiKey(p)) => m.apiKey = StoredApiKey(p)
        /\ Truthy(StoredBaseUrl(p)) => m.baseUrl = StoredBaseUrl(p)
        /\ m.model = config.model
        /\ m.temperature = config.temperature
        /\ m.maxTokens = config.maxTokens
        /\ \A req \in Sent :
             /\ (p \in CloudProviders /\ Truthy(StoredApiKey(p)))
                  => req.apiKey = StoredApiKey(p)
             /\ (p = "ollama" /\ Truthy(StoredBaseUrl(p)))
                  => req.baseUrl = StoredBaseUrl(p)[1]

\* The given config carries another provider's key and another base URL.
C10_Witness ==
  /\ call.provider = Some("google")
  /\ Truthy(StoredApiKey("google"))
  /\ Truthy(config.apiKey)
  /\ config.apiKey # StoredApiKey("google")
  /\ Truthy(config.baseUrl)
  /\ Len(call.fetchLog) >= 1

(***************************************************************************)
(* C13.  For a fixed model calculateCost is monotonic in usage: a call     *)
(* with at least as many input tokens and at least as many output tokens   *)
(* costs at least as much; for a registry model the cost is inputTokens    *)
(* per million times its input rate plus outputTokens per million times    *)
(* its output rate.                                                        *)
(***************************************************************************)
C13_CostMonotonic ==
  \A i \in 1..Len(costCalls), j \in 1..Len(costCalls) :
     LET a == costCalls[i]
         b == costCalls[j]
     IN  /\ (/\ a.modelId = b.modelId
             /\ b.tokenUsage.inputTokens >= a.tokenUsage.inputTokens
             /\ b.tokenUsage.outputTokens >= a.tokenUsage.outputTokens)
            => b.cost >= a.cost
         /\ \A p \in Providers : \A k \in 1..Len(MODELS[p]) :
              MODELS[p][k].id = a.modelId =>
                a.cost = a.tokenUsage.inputTokens * MODELS[p][k].cost.input
                         + a.tokenUsage.outputTokens * MODELS[p][k].cost.output

\* Two calls for a priced model, the second with more of both token counts.
C13_Witness ==
  /\ Len(costCalls) = 2
  /\ costCalls[1].modelId = "gpt-4.1-nano"
  /\ costCalls[2].modelId = "gpt-4.1-nano"
  /\ costCalls[2].tokenUsage.inputTokens > costCalls[1].tokenUsage.inputTokens
  /\ costCalls[2].tokenUsage.outputTokens > costCalls[1].tokenUsage.outputTokens
  /\ costCalls[1].cost > 0
  /\ costCalls[2].cost > costCalls[1].cost

(***************************************************************************)
(* C14.  For a model id that is not in the registry calculateCost returns  *)
(* the cost at the rates of the first registered model of the id's         *)
(* provider.  The provider is looked up in the registry by the model id,   *)
(* so it is never resolved for such an id and the cost is always 0.        *)
(***************************************************************************)
C14_UnknownModelFallsBack ==
  \A i \in 1..Len(costCalls) :
     LET a == costCalls[i]
     IN  (a.modelId \notin RegistryIds /\ a.tokenUsage.totalTokens > 0) =>
           \E p \in Providers :
              /\ Len(MODELS[p]) > 0
              /\ (MODELS[p][1].cost.input > 0 \/ MODELS[p][1].cost.output > 0)
              /\ a.cost = RateCost(a.tokenUsage, MODELS[p][1].cost)

(***************************************************************************)
(* C11.  On the tool path the usage the call returns is the field-wise     *)
(* sum of the two rounds' usage when both rounds report usage, the one     *)
(* reported record unchanged when exactly one round does, and absent when  *)
(* neither does.                                                           *)
(***************************************************************************)
C11_UsageSummed ==
  (Resolved /\ Len(call.returned) = 2) =>
    LET u1 == call.returned[1].tokenUsage
        u2 == call.returned[2].tokenUsage
    IN  /\ (u1 # Undefined /\ u2 # Undefined) =>
              /\ ReturnedUsage # Undefined
              /\ ReturnedUsage[1].inputTokens = u1[1].inputTokens + u2[1].inputTokens
              /\ ReturnedUsage[1].outputTokens = u1[1].outputTokens + u2[1].outputTokens
              /\ ReturnedUsage[1].totalTokens = u1[1].totalTokens + u2[1].totalTokens
        /\ (u1 # Undefined /\ u2 = Undefined) => ReturnedUsage = u1
        /\ (u1 = Undefined /\ u2 # Undefined) => ReturnedUsage = u2
        /\ (u1 = Undefined /\ u2 = Undefined) => ReturnedUsage = Undefined

\* Both rounds of a Google call report usage, with different totals.
C11_Witness ==
  /\ Resolved
  /\ call.provider = Some("google")
  /\ Len(call.returned) = 2
  /\ call.returned[1].tokenUsage # Undefined
  /\ call.returned[2].tokenUsage # Undefined
  /\ call.returned[1].tokenUsage # call.returned[2].tokenUsage
  /\ ReturnedUsage # Undefined
  /\ ReturnedUsage[1].inputTokens = 20

(***************************************************************************)
(* C12.  Every TokenUsage an adapter returns, and the one createApiCall    *)
(* returns, has totalTokens = inputTokens + outputTokens, also when the    *)
(* vendor reports a total that disagrees with its counts.  The OpenAI and  *)
(* Google adapters copy the vendor's total.                                *)
(***************************************************************************)
C12_TotalIsSum ==
  /\ \A k \in 1..Len(call.returned) :
       call.returned[k].tokenUsage # Undefined =>
         call.returned[k].tokenUsage[1].totalTokens
           = call.returned[k].tokenUsage[1].inputTokens
             + call.returned[k].tokenUsage[1].outputTokens
  /\ (Resolved /\ ReturnedUsage # Undefined) =>
       ReturnedUsage[1].totalTokens
         = ReturnedUsage[1].inputTokens + ReturnedUsage[1].outputTokens

(***************************************************************************)
(* C15.  When the caller supplied onToolCall and onToolResult, every tool  *)
(* call of the first response is announced once through onToolCall before  *)
(* its tool runs and answered once through onToolResult, with its id and   *)
(* the result or the error text, after it ran; all of it before the second *)
(* request.  createApiCall does not pass the two callbacks to callOllama.   *)
(***************************************************************************)
C15_ToolCallbacksInOrder ==
  (callbacks.onToolCall /\ callbacks.onToolResult) =>
    IF call.initialResult = Undefined
    THEN call.toolCallLog = <<>> /\ call.toolResultLog = <<>>
    ELSE LET tcs       == toolCallsToExecute(call.initialResult[1])
             announced == IF call.pc = "awaitTool" THEN call.toolIdx ELSE Len(tcs)
             answered  == IF call.pc = "awaitTool" THEN call.toolIdx - 1 ELSE Len(tcs)
         IN  /\ call.toolCallLog = SubSeq(tcs, 1, announced)
             /\ Len(call.executeLog) <= announced
             /\ Len(call.toolResultLog) = answered
             /\ \A k \in 1..Len(call.toolResultLog) :
                  /\ call.toolResultLog[k].toolCallId = tcs[k].id
                  /\ (call.toolResultLog[k].result # Undefined)
                       # (call.toolResultLog[k].error # Undefined)
             /\ Len(call.fetchLog) = 2 => answered = Len(tcs)

(***************************************************************************)
(* C16.  In streaming mode onChunk is invoked once per non-empty text      *)
(* fragment, in the order the fragments are read from the network, and     *)
(* the content the call returns is the concatenation, in that order, of    *)
(* the fragments passed to onChunk when there is at least one.             *)
(***************************************************************************)
C16_ChunksInOrder ==
  /\ call.chunkLog = Fragments(call.received)
  /\ call.chunkLog # <<>> => callbacks.onChunk
  /\ (StreamOver /\ call.chunkLog # <<>>) =>
       /\ call.returned[1].content = Concat(call.chunkLog)
       /\ Resolved
       /\ ReturnedContent = Concat(call.chunkLog)

\* Two reads, the first with two fragments around a line that does not decode.
C16_Witness ==
  /\ StreamOver
  /\ call.provider = Some("anthropic")
  /\ call.chunkLog = <<"l", "o", "Hel">>
  /\ ReturnedContent = "loHel"

(***************************************************************************)
(* C17.  When a streamed response ends without any text fragment having    *)
(* been delivered, the content the call returns is "No response received", *)
(* never the empty string.                                                 *)
(***************************************************************************)
C17_StreamPlaceholder ==
  (StreamOver /\ call.chunkLog = <<>>) =>
    /\ call.returned[1].content = "No response received"
    /\ Resolved
    /\ ReturnedContent = "No response received"

\* A stream that delivered lines but no fragment.
C17_Witness ==
  /\ StreamOver
  /\ call.provider = Some("google")
  /\ call.received # <<>>
  /\ call.chunkLog = <<>>
  /\ Resolved

(***************************************************************************)
(* C18.  A non-success HTTP response makes the call fail with a provider   *)
(* error: with the vendor's error message when the error body decodes and  *)
(* holds one, with a generic message when it does not decode; no other     *)
(* kind of error is raised.  The cloud adapters decode the body unguarded, *)
(* the Ollama adapter does not read it.                                    *)
(***************************************************************************)
C18_NonSuccessIsProviderError ==
  NonSuccess =>
    LET resp == call.response[1]
        p    == call.provider[1]
    IN  /\ Rejected
        /\ call.outcome[1].error[1].name = "Error"
        /\ IF resp.shape # "notJson" /\ resp.errorMessage # Undefined
           THEN RejectionMessage = ProviderErrorPrefix(p) \o resp.errorMessage[1]
           ELSE \E g \in GenericErrorTexts : RejectionMessage = ProviderErrorPrefix(p) \o g

(***************************************************************************)
(* C19.  A call without tools either resolves with a string content or     *)
(* fails with a missing-credential, unknown-provider or provider error,    *)
(* whatever the transport does.  A success body without the expected       *)
(* fields, a body that is no JSON and a rejected fetch surface as          *)
(* TypeError or SyntaxError.                                               *)
(***************************************************************************)
C19_OnlyDefinedErrors ==
  (Len(tools) = 0 /\ call.pc = "done") =>
    \/ Resolved /\ ReturnedContent \in STRING
    \/ /\ Rejected
       /\ call.outcome[1].error[1].name = "Error"
       /\ \/ RejectionMessage \in MissingCredentialMessages
          \/ RejectionMessage = "Unknown provider for model: " \o config.model
          \/ \E p \in Providers, g \in GenericErrorTexts \cup {"quota exceeded"} :
                RejectionMessage = ProviderErrorPrefix(p) \o g

(***************************************************************************)
(* C20.  Every tool call an adapter's buffered parsing produces has a      *)
(* defined id, and every tool-role message of the tool round carries a     *)
(* defined toolCallId, the id of the call it answers.  Only the Google     *)
(* adapter generates ids; the others copy the vendor's id, absent or not.  *)
(***************************************************************************)
C20_ToolCallIdsDefined ==
  /\ \A k \in 1..Len(call.returned) :
       \A i \in 1..Len(ReturnedToolCalls(k)) : ReturnedToolCalls(k)[i].id # Undefined
  /\ \A k \in 1..Len(call.messagesWithToolCalls) :
       call.messagesWithToolCalls[k].role = "tool" =>
         /\ call.messagesWithToolCalls[k].toolCallId # Undefined
         /\ \E i \in 1..Len(ReturnedToolCalls(1)) :
              ReturnedToolCalls(1)[i].id = call.messagesWithToolCalls[k].toolCallId

\* The working history once the tool loop is over: what the second
\* makeApiCall is given.
SecondHistory == call.messagesWithToolCalls

\* The value the execution of the i-th tool call resolved with, if it did.
ToolResultAt(i) ==
  LET hits == {k \in 1..Len(call.toolEvents) :
                 call.toolEvents[k].kind = "settled" /\ call.toolEvents[k].index = i}
  IN  IF hits = {} THEN Undefined ELSE call.toolEvents[CHOOSE k \in hits : TRUE].result

(***************************************************************************)
(* C22.  On the tool path the history given to the second adapter          *)
(* invocation is the caller's history, then exactly one assistant message  *)
(* with the first round's text and all of its tool calls, then exactly one *)
(* tool-role message per tool call in the provider's order, whose          *)
(* toolCallId is that call's id and whose content is the JSON text of the  *)
(* value the tool returned; the call returns the second round's content.   *)
(***************************************************************************)
C22_SecondRoundHistory ==
  ToolLoopOver =>
    LET h   == SecondHistory
        n   == Len(messages)
        tcs == ReturnedToolCalls(1)
    IN  /\ Len(h) = n + 1 + Len(tcs)
        /\ SubSeq(h, 1, n) = messages
        /\ h[n + 1].role = "assistant"
        /\ h[n + 1].content = call.returned[1].content
        /\ h[n + 1].toolCalls = Some(tcs)
        /\ \A i \in 1..Len(tcs) :
             /\ h[n + 1 + i].role = "tool"
             /\ h[n + 1 + i].toolCallId = tcs[i].id
             /\ ToolResultAt(i) # Undefined =>
                  h[n + 1 + i].content = JSONStringify(ToolResultAt(i)[1])
        /\ (Resolved /\ Len(call.returned) = 2) =>
             ReturnedContent = call.returned[2].content

\* Two tools have returned {"temp":20}, the second round has answered and
\* the call has resolved with that answer.
C22_Witness ==
  /\ Resolved
  /\ Len(call.returned) = 2
  /\ Len(ReturnedToolCalls(1)) = 2
  /\ \A i \in 1..2 : ToolResultAt(i) = Some(JsObject("{\"temp\":20}"))
  /\ SecondHistory[Len(messages) + 2].content = "{\"temp\":20}"
  /\ ReturnedContent = "It is 20C"

(***************************************************************************)
(* C23.  The tool calls of one model turn are executed one after the       *)
(* other in the provider's order: an execution starts only when every      *)
(* earlier tool call has settled and has its tool-role message in the      *)
(* working history, at most one execution is pending at any time, and the  *)
(* second request is sent only when none is pending and every tool call    *)
(* has its message.                                                        *)
(***************************************************************************)
C23_ToolsSequential ==
  LET ev  == call.toolEvents
      n   == Len(messages)
      tcs == IF call.returned = <<>> THEN <<>> ELSE ReturnedToolCalls(1)
  IN  /\ \A k \in 1..Len(ev) :
           /\ ev[k].kind = (IF k % 2 = 1 THEN "start" ELSE "settled")
           /\ ev[k].index \in 1..Len(tcs)
           /\ ev[k].history = n + ev[k].index
           /\ (k % 2 = 0) => ev[k].index = ev[k - 1].index
           /\ (k % 2 = 1 /\ k > 2) => ev[k].index > ev[k - 2].index
           /\ (k % 2 = 1) => call.executeLog[(k + 1) \div 2].name = tcs[ev[k].index].name
      /\ (Len(ev) % 2 = 1) <=> call.pc = "awaitTool"
      /\ Len(call.executeLog) = (Len(ev) + 1) \div 2
      /\ Len(call.fetchLog) = 2 =>
           /\ Len(ev) % 2 = 0
           /\ Len(call.messagesWithToolCalls) = n + 1 + Len(tcs)

\* Two tools have run, the first failed, and the second request went out.
C23_Witness ==
  /\ Len(call.fetchLog) = 2
  /\ Len(call.toolEvents) = 4
  /\ call.toolEvents[2].result = Undefined
  /\ call.toolEvents[3].index = 2

DeclaresToolSupport ==
  /\ getModelInfo(config.model) # Undefined
  /\ getModelInfo(config.model)[1].supportsTools

(***************************************************************************)
(* C25.  The Ollama adapter puts tools in a request only when the model's  *)
(* registry entry declares tool support.  For a model that does not        *)
(* declare it, a call with a non-empty tools list sends at most one        *)
(* request (exactly one when it resolves), executes no tool and has no     *)
(* second round, even when the response carries tool calls.                *)
(***************************************************************************)
C25_OllamaToolsOnlyIfDeclared ==
  call.provider = Some("ollama") =>
    /\ \A req \in Sent : req.body.tools # Undefined => DeclaresToolSupport
    /\ (~DeclaresToolSupport /\ Len(tools) > 0) =>
         /\ Len(call.fetchLog) <= 1
         /\ \A req \in Sent : req.body.tools = Undefined
         /\ call.executeLog = <<>>
         /\ call.toolEvents = <<>>
         /\ call.caught = <<>>
         /\ call.initialResult = Undefined
         /\ Resolved => Len(call.fetchLog) = 1 /\ Len(call.returned) = 1

\* llama3.2 was given tools, its one response carried a tool call, and the
\* call resolved without running it.
C25_Witness ==
  /\ config.model = "llama3.2"
  /\ Len(tools) > 0
  /\ Resolved
  /\ Len(call.returned) = 1
  /\ Len(ReturnedToolCalls(1)) > 0
  /\ Len(call.fetchLog) = 1
  /\ call.executeLog = <<>>

\* The well-formed lines with a fragment that arrived, whole, after a line
\* that did not decode: their positions in what was read.
AfterBadLine ==
  {j \in 1..Len(call.received) :
     /\ Decodes(call.received[j])
     /\ call.received[j].text # ""
     /\ \E i \in 1..(j - 1) : ~call.received[i].valid}

(***************************************************************************)
(* C26.  In streaming mode a line that cannot be decoded raises no error   *)
(* and does not end the stream: every well-formed line that arrives after  *)
(* it, in the same read or in a later one, has its fragment passed to      *)
(* onChunk, at its place among the fragments, and the call resolves with a *)
(* content that holds all of them.                                         *)
(***************************************************************************)
C26_BadLineSkipped ==
  (call.streaming /\ \E i \in 1..Len(call.received) : ~call.received[i].valid) =>
    /\ ~Rejected
    /\ call.pc = "reading" \/ Resolved
    /\ \A j \in AfterBadLine :
         LET k == Len(Fragments(SubSeq(call.received, 1, j)))
         IN  /\ k <= Len(call.chunkLog)
             /\ call.chunkLog[k] = call.received[j].text
    /\ (call.body # <<>>) => call.pc = "reading"
    /\ (Resolved /\ AfterBadLine # {}) =>
         ReturnedContent = Concat(Fragments(call.received))

\* A line that does not decode came first in the stream's first read; the
\* fragment after it in that read and the fragment of the next read were
\* both delivered and returned.
C26_Witness ==
  /\ Resolved
  /\ call.streaming
  /\ Len(call.received) = 4
  /\ ~call.received[2].valid
  /\ AfterBadLine = {3, 4}
  /\ call.chunkLog = <<"l", "o", "Hel">>
  /\ ReturnedContent = "loHel"

\* The fragments of the frames the bytes received hold, whatever the reads
\* they came in: a frame in two pieces counts once, where it is complete.
RECURSIVE WireFragments(_)
WireFragments(lines) ==
  IF lines = <<>> THEN <<>>
  ELSE (IF Head(lines).valid /\ Head(lines).part \in {"whole", "tail"}
           /\ Head(lines).text # ""
        THEN <<Head(lines).text>> ELSE <<>>)
       \o WireFragments(Tail(lines))

(***************************************************************************)
(* C30.  In streaming mode the fragments passed to onChunk and the content *)
(* returned depend on the bytes received alone, not on their division      *)
(* into reads: a frame whose bytes come in two consecutive reads gives the *)
(* fragment it gives when it comes in one.  The adapters decode each read  *)
(* on its own and keep nothing of a line that a read leaves unfinished.    *)
(***************************************************************************)
C30_ReadBoundariesIrrelevant ==
  StreamOver =>
    /\ call.chunkLog = WireFragments(call.received)
    /\ WireFragments(call.received) # <<>> =>
         ReturnedContent = Concat(WireFragments(call.received))

(***************************************************************************)
(* usePlaygroundState: the conversation of the playground, its sendMessage *)
(* and the operations that replace the conversation.  createApiCall is the *)
(* hook's environment: a call in flight invokes the callbacks it was given *)
(* in one of the orders the adapters produce, then resolves or rejects.    *)
(***************************************************************************)
MaxSends == 2

MaxReplacements == 2

HookPrompts == {[id |-> "p1", content |-> "Be brief"]}

HookToolCall(n) ==
  [id |-> Some("call_" \o ToString(n)), name |-> "lookup",
   arguments |-> JsObject("{\"city\":\"Paris\"}")]

\* What createApiCall does to its caller: onChunk(text), onToolCall(toolCall),
\* onToolResult(toolCall.id, result, error), and at its end a result
\* (content and toolCalls) or an Error (message).
CallEvent(kind, text, toolCalls, result) ==
  [kind |-> kind, text |-> text, toolCalls |-> toolCalls, result |-> result]

\* The courses of the n-th call: streamed text; a buffered answer; a tool
\* round that succeeds, one whose tool fails, one whose second request is
\* answered by a provider error; a tool round of the Ollama adapter, which
\* invokes no tool callback; a failure before any callback.
CallCourses(n) ==
  {<<CallEvent("chunk", "Hel", <<>>, Undefined), CallEvent("chunk", "lo", <<>>, Undefined),
     CallEvent("resolve", "Hello", <<>>, Undefined)>>,
   <<CallEvent("resolve", "It is 20C", <<>>, Undefined)>>,
   <<CallEvent("toolCall", "", <<HookToolCall(n)>>, Undefined),
     CallEvent("toolResult", "", <<HookToolCall(n)>>, Some(JsObject("{\"temp\":20}"))),
     CallEvent("resolve", "It is 20C", <<HookToolCall(n)>>, Undefined)>>,
   <<CallEvent("toolCall", "", <<HookToolCall(n)>>, Undefined),
     CallEvent("toolResult", "Tool execution failed: network down",
               <<HookToolCall(n)>>, Undefined),
     CallEvent("resolve", "The lookup failed", <<HookToolCall(n)>>, Undefined)>>,
   <<CallEvent("toolCall", "", <<HookToolCall(n)>>, Undefined),
     CallEvent("toolResult", "", <<HookToolCall(n)>>, Some(JsObject("{\"temp\":20}"))),
     CallEvent("reject", "OpenAI API error: quota exceeded", <<>>, Undefined)>>,
   <<CallEvent("resolve", "It is 20C", <<HookToolCall(n)>>, Undefined)>>,
   <<CallEvent("reject", "OpenAI API key is required", <<>>, Undefined)>>}

\* setConversation((prev) => ({...prev, messages: ...}))
SetMessages(h, msgs) == [h EXCEPT !.conversation.messages = msgs]

\* The uuids taken by a step.
TakeIds(h, k) == [h EXCEPT !.nextId = @ + k]

selectPrompt(h, prompt) ==
  TakeIds([h EXCEPT
             !.selectedPrompt = Some(prompt),
             !.conversation =
                [id |-> Uuid(h.nextId + 1),
                 messages |-> <<Msg(Uuid(h.nextId), "system", prompt.content,
                                    Undefined, Undefined)>>,
                 promptId |-> Some(prompt.id)],
             !.error = Undefined], 2)

clearConversation(h) ==
  TakeIds([h EXCEPT
             !.conversation =
                [id |-> Uuid(h.nextId),
                 messages |-> IF h.selectedPrompt # Undefined
                              THEN <<Msg(Uuid(h.nextId + 1), "system",
                                         h.selectedPrompt[1].content, Undefined, Undefined)>>
                              ELSE <<>>,
                 promptId |-> IF h.selectedPrompt # Undefined
                              THEN Some(h.selectedPrompt[1].id) ELSE Undefined],
             !.error = Undefined], 2)

startNewConversation(h) ==
  TakeIds([h EXCEPT
             !.selectedPrompt = Undefined,
             !.conversation = [id |-> Uuid(h.nextId), messages |-> <<>>,
                               promptId |-> Undefined],
             !.error = Undefined], 1)

\* sendMessage up to its await: the user's message and the placeholder
\* assistant message are appended, isLoading is set, the error is cleared
\* and createApiCall is started with the three callbacks.
sendMessage(h, content, course) ==
  TakeIds([h EXCEPT
             !.conversation.messages =
                @ \o <<Msg(Uuid(h.nextId), "user", content, Undefined, Undefined),
                       Msg(Uuid(h.nextId + 1), "assistant", "", Undefined, Undefined)>>,
             !.isLoading = TRUE,
             !.error = Undefined,
             !.sends = @ + 1,
             !.inflight = Some([userMessageId |-> Uuid(h.nextId),
                                assistantMessageId |-> Uuid(h.nextId + 1),
                                conversationId |-> h.conversation.id,
                                events |-> course])], 2)

\* onChunk: the message with the placeholder's id gets the chunk appended.
HookOnChunk(h, assistantMessageId, chunk) ==
  SetMessages(h, SeqMap(LAMBDA msg : IF msg.id = assistantMessageId
                                     THEN [msg EXCEPT !.content = @ \o chunk]
                                     ELSE msg,
                        h.conversation.messages))

\* onToolCall: the message with the placeholder's id gets the tool call.
HookOnToolCall(h, assistantMessageId, toolCall) ==
  SetMessages(h, SeqMap(LAMBDA msg :
                          IF msg.id = assistantMessageId
                          THEN [msg EXCEPT !.toolCalls =
                                  Some((IF @ = Undefined THEN <<>> ELSE @[1])
                                       \o <<toolCall>>)]
                          ELSE msg,
                        h.conversation.messages))

\* onToolResult: a tool-role message is appended to the conversation.
HookOnToolResult(h, toolCallId, result, error) ==
  TakeIds(SetMessages(h, Append(h.conversation.messages,
                                Msg(Uuid(h.nextId), "tool",
                                    IF Truthy(error) THEN "Error: " \o error[1]
                                    ELSE JSONStringify(result[1]),
                                    Undefined, toolCallId))), 1)

\* After the await: the placeholder gets the content and the tool calls of
\* the result (the metadata is not kept in the model's messages).
SendMessageTry(h, assistantMessageId, content, toolCalls) ==
  SetMessages(h, SeqMap(LAMBDA msg :
                          IF msg.id = assistantMessageId
                          THEN [msg EXCEPT !.content = content,
                                           !.toolCalls = IF toolCalls # <<>>
                                                         THEN Some(toolCalls) ELSE @]
                          ELSE msg,
                        h.conversation.messages))

\* catch: the error message is recorded and the placeholder is removed.
SendMessageCatch(h, assistantMessageId, errorMessage) ==
  [SetMessages(h, SelectSeq(h.conversation.messages,
                            LAMBDA msg : msg.id # assistantMessageId))
     EXCEPT !.error = Some(errorMessage)]

\* A sendMessage without its finally block.
SendMessageFinallyMissing(h) == h

\* finally: setIsLoading(false)
SendMessageFinally(h) == [h EXCEPT !.isLoading = FALSE]

\* The call is over: how it ended, for which sendMessage.
Settle(h, status) ==
  [h EXCEPT !.inflight = Undefined,
            !.settled = Append(@, [status |-> status,
                                   userMessageId |-> h.inflight[1].userMessageId,
                                   assistantMessageId |-> h.inflight[1].assistantMessageId,
                                   conversationId |-> h.inflight[1].conversationId])]

NextEvent == Head(hook.inflight[1].events)

Consume(h) == [h EXCEPT !.inflight[1].events = Tail(@)]

HookInit ==
  /\ messages = <<Msg("m1", "user", "2+2?", Undefined, Undefined)>>
  /\ config = [model |-> "gemma3", apiKey |-> Undefined, baseUrl |-> Undefined,
               temperature |-> 2, maxTokens |-> 5000]
  /\ tools = <<>>
  /\ callbacks = [onChunk |-> TRUE, onToolCall |-> TRUE, onToolResult |-> TRUE]
  /\ localStorage = [p \in Providers |-> Undefined]
  /\ call = InitialCall
  /\ costCalls = <<>>
  /\ hook = InitialHook
  /\ ab = InitialAB

HookFrame == UNCHANGED <<inputs, call, costCalls, ab>>

SelectPrompt ==
  /\ hook.replacements < MaxReplacements
  /\ \E prompt \in HookPrompts :
       hook' = [selectPrompt(hook, prompt) EXCEPT !.replacements = @ + 1]
  /\ HookFrame

ClearConversation ==
  /\ hook.replacements < MaxReplacements
  /\ hook' = [clearConversation(hook) EXCEPT !.replacements = @ + 1]
  /\ HookFrame

StartNewConversation ==
  /\ hook.replacements < MaxReplacements
  /\ hook' = [startNewConversation(hook) EXCEPT !.replacements = @ + 1]
  /\ HookFrame

\* if (isLoading) return; otherwise the call starts.
SendMessage ==
  /\ ~hook.isLoading
  /\ hook.sends < MaxSends
  /\ \E course \in CallCourses(hook.sends + 1) :
       hook' = sendMessage(hook, "Weather in Paris?", course)
  /\ HookFrame

OnChunk ==
  /\ hook.inflight # Undefined
  /\ NextEvent.kind = "chunk"
  /\ hook' = HookOnChunk(Consume(hook), hook.inflight[1].assistantMessageId, NextEvent.text)
  /\ HookFrame

OnToolCall ==
  /\ hook.inflight # Undefined
  /\ NextEvent.kind = "toolCall"
  /\ hook' = HookOnToolCall(Consume(hook), hook.inflight[1].assistantMessageId,
                            NextEvent.toolCalls[1])
  /\ HookFrame

OnToolResult ==
  /\ hook.inflight # Undefined
  /\ NextEvent.kind = "toolResult"
  /\ hook' = HookOnToolResult(Consume(hook), NextEvent.toolCalls[1].id, NextEvent.result,
                              IF NextEvent.result = Undefined
                              THEN Some(NextEvent.text) ELSE Undefined)
  /\ HookFrame

CallResolves ==
  /\ hook.inflight # Undefined
  /\ NextEvent.kind = "resolve"
  /\ hook' = SendMessageFinally(
               SendMessageTry(Settle(hook, "resolved"),
                              hook.inflight[1].assistantMessageId,
                              NextEvent.text, NextEvent.toolCalls))
  /\ HookFrame

CallRejects ==
  /\ hook.inflight # Undefined
  /\ NextEvent.kind = "reject"
  /\ hook' = SendMessageFinally(
               SendMessageCatch(Settle(hook, "rejected"),
                                hook.inflight[1].assistantMessageId, NextEvent.text))
  /\ HookFrame

\* A step of the call in flight: a callback or its settlement.
CallProgress ==
  \/ OnChunk
  \/ OnToolCall
  \/ OnToolResult
  \/ CallResolves
  \/ CallRejects

HookNext ==
  \/ SelectPrompt
  \/ ClearConversation
  \/ StartNewConversation
  \/ SendMessage
  \/ CallProgress

HookSpec == HookInit /\ [][HookNext]_vars

\* The same hook when every call in flight goes on to its end.
HookLiveSpec == HookSpec /\ WF_vars(CallProgress)

\* The messages of the conversation on screen.
Shown == hook.conversation.messages

ShownIds(h) == {h.conversation.messages[k].id : k \in 1..Len(h.conversation.messages)}

\* The conversation on screen is not the one the call in flight was sent in.
Replaced ==
  hook.inflight # Undefined /\ hook.conversation.id # hook.inflight[1].conversationId

\* This step is a callback, the completion or the failure of the call in flight.
CallbackStep == hook.inflight # Undefined /\ hook'.inflight # hook.inflight

(***************************************************************************)
(* C27.  Once the conversation has been replaced (clearConversation,       *)
(* startNewConversation, selectPrompt) while a call is in flight, no later *)
(* callback of that call, nor its completion or failure, adds a message to *)
(* the new conversation or changes one of its messages.  onToolResult      *)
(* appends its tool-role message to whatever conversation is current.      *)
(***************************************************************************)
C27_ReplacedConversationUntouched ==
  [][(Replaced /\ CallbackStep) =>
       hook'.conversation.messages = hook.conversation.messages]_vars

(***************************************************************************)
(* C28.  In every state of the hook's conversation each tool-role message  *)
(* has the toolCallId of a tool call carried by an assistant message of    *)
(* the same conversation.  The catch of sendMessage removes the assistant  *)
(* message and leaves the tool-role messages of its tool round.            *)
(***************************************************************************)
C28_ToolMessagesAnswerACall ==
  \A k \in 1..Len(Shown) :
    Shown[k].role = "tool" =>
      \E j \in 1..Len(Shown) :
        /\ Shown[j].role = "assistant"
        /\ Shown[j].toolCalls # Undefined
        /\ \E i \in 1..Len(Shown[j].toolCalls[1]) :
             Shown[j].toolCalls[1][i].id = Shown[k].toolCallId

\* This step is the failure of the call in flight.
FailureStep == CallbackStep /\ NextEvent.kind = "reject"

(***************************************************************************)
(* C29.  Whenever isLoading is true it is false again later, the call in   *)
(* flight having settled, by success or by failure.  The step in which the *)
(* call fails records the error text, ends loading, removes the            *)
(* placeholder assistant message and no other message: the user's message  *)
(* stays in the conversation it was sent in.                               *)
(***************************************************************************)
C29_LoadingEnds ==
  /\ hook.isLoading ~> (~hook.isLoading /\ hook.inflight = Undefined)
  /\ [][(CallbackStep /\ hook'.inflight = Undefined) => ~hook'.isLoading]_vars
  /\ [][FailureStep =>
          /\ hook'.error = Some(NextEvent.text)
          /\ hook.inflight[1].assistantMessageId \notin ShownIds(hook')
          /\ ShownIds(hook') = ShownIds(hook) \ {hook.inflight[1].assistantMessageId}
          /\ ~Replaced => hook.inflight[1].userMessageId \in ShownIds(hook')]_vars

\* A call failed after its tool round: loading is over, the error text is
\* on record, the placeholder is gone and the user's message is still there.
C29_Witness ==
  /\ hook.settled # <<>>
  /\ hook.settled[Len(hook.settled)].status = "rejected"
  /\ ~hook.isLoading
  /\ hook.error = Some("OpenAI API error: quota exceeded")
  /\ hook.settled[Len(hook.settled)].assistantMessageId \notin ShownIds(hook)
  /\ hook.settled[Len(hook.settled)].userMessageId \in ShownIds(hook)

(***************************************************************************)
(* ABTestInterface.handleSubmit: one user message sent to two models side  *)
(* by side.  Each pane has its messages, its loading flag and its error;   *)
(* each call is given the onChunk of its pane and is awaited in a try of   *)
(* its own.  createApiCall is the environment here too.                    *)
(***************************************************************************)
MaxSubmits == 2

Sides == {"left", "right"}

Other(side) == IF side = "left" THEN "right" ELSE "left"

\* The courses of a call that is given onChunk alone.
ABCourses ==
  {<<CallEvent("chunk", "Hel", <<>>, Undefined), CallEvent("chunk", "lo", <<>>, Undefined),
     CallEvent("resolve", "Hello", <<>>, Undefined)>>,
   <<CallEvent("resolve", "It is 20C", <<>>, Undefined)>>,
   <<CallEvent("chunk", "Hel", <<>>, Undefined),
     CallEvent("reject", "Failed to fetch", <<>>, Undefined)>>,
   <<CallEvent("reject", "Anthropic API key is required", <<>>, Undefined)>>}

\* handleSubmit up to Promise.all: both panes get the user's message, are
\* set loading with no error and get a placeholder of their own; both calls
\* are started.
handleSubmit(a, content, course) ==
  LET pane(side, assistantId) ==
        [messages |-> a[side].messages
                      \o <<Msg(Uuid(a.nextId), "user", content, Undefined, Undefined),
                           Msg(assistantId, "assistant", "", Undefined, Undefined)>>,
         isLoading |-> TRUE,
         error |-> Undefined]
  IN  [a EXCEPT
         !.left = pane("left", Uuid(a.nextId + 1)),
         !.right = pane("right", Uuid(a.nextId + 2)),
         !.inflight = [left  |-> Some([assistantId |-> Uuid(a.nextId + 1),
                                       events |-> course.left]),
                       right |-> Some([assistantId |-> Uuid(a.nextId + 2),
                                       events |-> course.right])],
         !.nextId = @ + 3,
         !.submits = @ + 1]

\* onChunk of callLeftAPI / callRightAPI: setLeftResult / setRightResult.
ABOnChunk(a, side, chunk) ==
  [a EXCEPT
     ![side].messages = SeqMap(LAMBDA msg : IF msg.id = a.inflight[side][1].assistantId
                                            THEN [msg EXCEPT !.content = @ \o chunk]
                                            ELSE msg, @),
     !.inflight[side][1].events = Tail(@)]

\* After the await of the pane's call: its placeholder gets the content.
ABTry(a, side, content) ==
  [a EXCEPT
     ![side].messages = SeqMap(LAMBDA msg : IF msg.id = a.inflight[side][1].assistantId
                                            THEN [msg EXCEPT !.content = content]
                                            ELSE msg, @),
     ![side].isLoading = FALSE,
     !.inflight[side] = Undefined,
     !.settled = Append(@, [side |-> side, status |-> "resolved"])]

\* A failure that ends both panes, as a rejected Promise.all would.
ABCatchEndsBoth(a, side, message) ==
  [a EXCEPT
     !.left.isLoading = FALSE, !.left.error = Some(message),
     !.right.isLoading = FALSE, !.right.error = Some(message),
     ![side].messages = SelectSeq(@, LAMBDA msg : msg.id # a.inflight[side][1].assistantId),
     !.inflight[side] = Undefined,
     !.settled = Append(@, [side |-> side, status |-> "rejected"])]

\* The catch of the pane's call: its placeholder is removed, its loading
\* ends, its error is set.
ABCatch(a, side, message) ==
  [a EXCEPT
     ![side].messages = SelectSeq(@, LAMBDA msg : msg.id # a.inflight[side][1].assistantId),
     ![side].isLoading = FALSE,
     ![side].error = Some(message),
     !.inflight[side] = Undefined,
     !.settled = Append(@, [side |-> side, status |-> "rejected"])]

ABInit ==
  /\ messages = <<Msg("m1", "user", "2+2?", Undefined, Undefined)>>
  /\ config = [model |-> "gpt-4o-mini", apiKey |-> Undefined, baseUrl |-> Undefined,
               temperature |-> 2, maxTokens |-> 100]
  /\ tools = <<>>
  /\ callbacks = [onChunk |-> TRUE, onToolCall |-> FALSE, onToolResult |-> FALSE]
  /\ localStorage = [p \in Providers |-> Undefined]
  /\ call = InitialCall
  /\ costCalls = <<>>
  /\ hook = InitialHook
  /\ ab = InitialAB

\* if (!input.trim() || leftResult.isLoading || rightResult.isLoading) return
HandleSubmit ==
  /\ ~ab.left.isLoading /\ ~ab.right.isLoading
  /\ ab.submits < MaxSubmits
  /\ \E course \in [left : ABCourses, right : ABCourses] :
       ab' = handleSubmit(ab, "Weather in Paris?", course)
  /\ UNCHANGED <<inputs, call, costCalls, hook>>

ABChunk ==
  /\ \E side \in Sides :
       /\ ab.inflight[side] # Undefined
       /\ Head(ab.inflight[side][1].events).kind = "chunk"
       /\ ab' = ABOnChunk(ab, side, Head(ab.inflight[side][1].events).text)
  /\ UNCHANGED <<inputs, call, costCalls, hook>>

ABResolves ==
  /\ \E side \in Sides :
       /\ ab.inflight[side] # Undefined
       /\ Head(ab.inflight[side][1].events).kind = "resolve"
       /\ ab' = ABTry(ab, side, Head(ab.inflight[side][1].events).text)
  /\ UNCHANGED <<inputs, call, costCalls, hook>>

ABRejects ==
  /\ \E side \in Sides :
       /\ ab.inflight[side] # Undefined
       /\ Head(ab.inflight[side][1].events).kind = "reject"
       /\ ab' = ABCatch(ab, side, Head(ab.inflight[side][1].events).text)
  /\ UNCHANGED <<inputs, call, costCalls, hook>>

ABNext ==
  \/ HandleSubmit
  \/ ABChunk
  \/ ABResolves
  \/ ABRejects

ABSpec == ABInit /\ [][ABNext]_vars

\* This step is a chunk, the completion or the failure of the side's call.
SideStep(side) ==
  ab.inflight[side] # Undefined /\ ab'.inflight[side] # ab.inflight[side]

(***************************************************************************)
(* C21.  The two calls of an A/B submission are started in the same step   *)
(* and are independent: a chunk, the completion or the failure of one      *)
(* side's call changes that side's pane only - the other pane's messages,  *)
(* error and loading flag and the other call stay as they are - and a pane *)
(* is loading exactly as long as its own call is in flight.                *)
(***************************************************************************)
C21_PanesIndependent ==
  /\ [][\A side \in Sides :
          SideStep(side) =>
            /\ ab'[Other(side)] = ab[Other(side)]
            /\ ab'.inflight[Other(side)] = ab.inflight[Other(side)]]_vars
  /\ [][ab'.submits # ab.submits =>
          \A side \in Sides : ab'.inflight[side] # Undefined /\ ab'[side].isLoading]_vars
  /\ [](\A side \in Sides : ab[side].isLoading <=> ab.inflight[side] # Undefined)

\* The left call has failed while the right call, one chunk delivered, is
\* still in flight: the right pane shows the chunk, no error, and is loading.
C21_Witness ==
  /\ ab.settled = <<[side |-> "left", status |-> "rejected"]>>
  /\ ab.left.error = Some("Anthropic API key is required")
  /\ ~ab.left.isLoading
  /\ Len(ab.left.messages) = 1
  /\ ab.inflight.right # Undefined
  /\ ab.right.isLoading
  /\ ab.right.error = Undefined
  /\ ab.right.messages[2].content = "Hel"

====
